---- MODULE Spec2Model ----
(***************************************************************************)
(* EmPower1 ledger: two nodes (Blockchain + Network) living in one process *)
(* and sharing the process-wide registries USER_PUBLIC_KEYS and            *)
(* VALIDATOR_WALLETS, as the fixtures of tests/network/test_network.py do. *)
(*                                                                         *)
(* Modelling conventions                                                   *)
(*  - a wallet is named by its address; its public key is a value derived  *)
(*    from it (get_public_key_hex);                                        *)
(*  - SHA-256 is collision free: a hash is the value that is hashed: the   *)
(*    byte string of a transaction, the tuple of the header fields of a    *)
(*    block;                                                               *)
(*  - an ECDSA signature is the triple (signer, signed digest, intact);    *)
(*    a corrupted (byte-flipped) signature has intact = FALSE;             *)
(*  - amounts are integers (the code uses floats with whole values here);  *)
(*  - a balance dict is a total function, absent keys read as 0 exactly as *)
(*    balances.get(addr, 0.0) does;                                        *)
(*  - time.time() is a logical clock for blocks and an input for           *)
(*    transactions;                                                        *)
(*  - fee and metadata of a transaction keep their defaults (0.0, {})      *)
(*    wherever a transaction is built with Transaction(...).               *)
(***************************************************************************)
EXTENDS Integers, Sequences, FiniteSets, TLC

-----------------------------------------------------------------------------
(* Bounds *)

\* most blocks on one chain, genesis included
MaxChain == 3
\* most transactions in one mempool
MaxPending == 2
\* most blocks mined over a whole run (each takes a fresh timestamp)
MaxClock == 2
\* largest stake a validator accumulates
MaxStake == 200
\* most select_next_validator calls recorded in a row
MaxSelections == 6

-----------------------------------------------------------------------------
(* Program constants *)

initial_supply_epc == 1000000
MIN_STAKE_TO_BE_ACTIVE == 100
NATIVE_CURRENCY_SYMBOL == "EPC"

-----------------------------------------------------------------------------
(* Identities *)

Nodes == {"A", "B"}

\* the wallet generated by each node's _create_and_sign_genesis_block
GenesisWallet(n) == IF n = "A" THEN "gA" ELSE "gB"

\* the throw-away genesis wallet of the temporary Blockchain that
\* handle_chain_response constructs
TempWallet == "tmp"

Wallets == {"al", "bo", "gA", "gB", "v1"}
Addresses == Wallets \cup {TempWallet}

\* sorted() on address strings
AddressOrder == <<"al", "bo", "gA", "gB", "tmp", "v1">>
AddressRank(a) == CHOOSE i \in 1..Len(AddressOrder) : AddressOrder[i] = a

-----------------------------------------------------------------------------
(* Wallet: keys and signatures *)

NoKey == <<"nokey">>
get_public_key_hex(w) == <<"pk", w>>

NoSignature == [signer |-> "none", digest |-> <<>>, intact |-> FALSE]

sign_data(w, digest) == [signer |-> w, digest |-> digest, intact |-> TRUE]

\* values that are not what verification expects
NotHexKey == <<"not-a-hex-string">>       \* a string that bytes.fromhex refuses
NotAPointKey == <<"04112233">>            \* hex, but no point of the curve
NotBytes == <<"notbytes">>                \* a data hash that is not bytes
NotHexSignature == [signer |-> "nothex", digest |-> <<>>, intact |-> FALSE]
NotStrSignature == [signer |-> "notstr", digest |-> <<>>, intact |-> FALSE]

\* isinstance(public_key_bytes_hex, str); a missing key is None
IsStr(pk) == pk # NoKey
\* isinstance(.., bytes) of the data hash and of the signature
IsBytes(digest) == digest # NotBytes
IsSignatureBytes(sig) == sig.signer \notin {"none", "nothex", "notstr"}

\* the exception the try body of Wallet.verify_signature raises, "none" when
\* it reaches `return True`
verify_signature_try(pk, digest, sig) ==
    IF pk = NotHexKey THEN "ValueError"                       \* bytes.fromhex
    ELSE IF pk = NotAPointKey THEN "ValueError"               \* from_encoded_point
    ELSE IF ~(sig.intact /\ pk = get_public_key_hex(sig.signer) /\ sig.digest = digest)
         THEN "InvalidSignature"                              \* public_key.verify
    ELSE "none"

\* a handler that lets everything but InvalidSignature through
verify_signature_except_invalid_only(e) == e = "InvalidSignature"

\* `except InvalidSignature` and `except Exception`
verify_signature_except(e) == e = "InvalidSignature" \/ e \in {"ValueError", "TypeError"}

\* what a call of Wallet.verify_signature ends in: "True", "False" or the
\* name of the exception that leaves it
Wallet_verify_signature(pk, digest, sig) ==
    IF ~IsStr(pk) \/ ~IsBytes(digest) \/ ~IsSignatureBytes(sig) THEN "False"
    ELSE LET e == verify_signature_try(pk, digest, sig)
         IN  IF e = "none" THEN "True"
             ELSE IF verify_signature_except(e) THEN "False"
             ELSE e

\* the value callers branch on
verify_signature(pk, digest, sig) == Wallet_verify_signature(pk, digest, sig) = "True"

CorruptSignature(sig) == [sig EXCEPT !.intact = FALSE]

-----------------------------------------------------------------------------
(* Transaction *)

\* f"{x:.8f}" and f"{x:.6f}" of a whole number x
FormatFixed8(x) == ToString(x) \o ".00000000"
FormatFixed6(x) == ToString(x) \o ".000000"

\* a metadata dict is a function from some of these keys to strings; the
\* keys in the order sort_keys=True puts them
MetadataKeys == <<"memo", "tag">>
NoMetadata == [k \in {} |-> ""]

\* json.dumps(metadata, sort_keys=True): the items of the keys from the
\* i-th on, first telling whether an item was written before
RECURSIVE DumpItems(_, _, _)
DumpItems(metadata, i, first) ==
    IF i > Len(MetadataKeys) THEN ""
    ELSE IF MetadataKeys[i] \notin DOMAIN metadata THEN DumpItems(metadata, i + 1, first)
    ELSE (IF first THEN "" ELSE ", ")
         \o "\"" \o MetadataKeys[i] \o "\": \"" \o metadata[MetadataKeys[i]] \o "\""
         \o DumpItems(metadata, i + 1, FALSE)

json_dumps(metadata) == "{" \o DumpItems(metadata, 1, TRUE) \o "}"

\* the f-string of get_data_for_signing: the fields one after the other,
\* nothing between them
get_data_for_signing(tx) ==
    tx.sender_address \o tx.receiver_address \o FormatFixed8(tx.amount) \o tx.asset_id
    \o FormatFixed6(tx.timestamp) \o FormatFixed8(tx.fee) \o json_dumps(tx.metadata)

\* hashlib.sha256 of a byte string
sha256(data) == <<data>>

calculate_transaction_id(tx) == sha256(get_data_for_signing(tx))

\* Transaction.__init__ with every argument
TransactionWith(s, r, a, asset, ts, fee, metadata) ==
    LET t == [sender_address |-> s, receiver_address |-> r, amount |-> a,
              asset_id |-> asset, timestamp |-> ts, fee |-> fee, metadata |-> metadata,
              signature |-> NoSignature, transaction_id |-> <<>>]
    IN  [t EXCEPT !.transaction_id = calculate_transaction_id(t)]

\* Transaction.__init__ with fee and metadata left to their defaults
Transaction(s, r, a, asset, ts) == TransactionWith(s, r, a, asset, ts, 0, NoMetadata)

\* the wallet/sender comparison of sign() ends in `pass`: any wallet signs
sign(tx, w) == [tx EXCEPT !.signature = sign_data(w, sha256(get_data_for_signing(tx)))]

\* bytes.fromhex(signature_hex): the exception it raises, or "none"
fromhex_signature(sig) ==
    IF sig.signer = "nothex" THEN "ValueError"
    ELSE IF sig.signer = "notstr" THEN "TypeError"
    ELSE "none"

\* what a call of Transaction.verify_signature ends in; both except clauses
\* return False
Transaction_verify_signature(tx, pk) ==
    IF tx.signature = NoSignature THEN "False"
    ELSE LET data_to_verify_hash == sha256(get_data_for_signing(tx))
             r == IF fromhex_signature(tx.signature) # "none"
                  THEN fromhex_signature(tx.signature)
                  ELSE Wallet_verify_signature(pk, data_to_verify_hash, tx.signature)
         IN  IF r \in {"True", "False"} THEN r ELSE "False"

tx_verify_signature(tx, pk) == Transaction_verify_signature(tx, pk) = "True"

\* to_dict copies every field; from_dict rebuilds the object, which
\* recomputes transaction_id from the fields
tx_to_dict(tx) == tx
\* a from_dict that keeps the identifier of the dictionary
tx_from_dict_keeping_id(d) ==
    [TransactionWith(d.sender_address, d.receiver_address, d.amount, d.asset_id, d.timestamp,
                     d.fee, d.metadata)
        EXCEPT !.signature = d.signature, !.transaction_id = d.transaction_id]

tx_from_dict(d) ==
    [TransactionWith(d.sender_address, d.receiver_address, d.amount, d.asset_id, d.timestamp,
                     d.fee, d.metadata)
        EXCEPT !.signature = d.signature]

-----------------------------------------------------------------------------
(* Block *)

GenesisPreviousHash == <<"0">>

get_transaction_hashes(txs) == [i \in 1..Len(txs) |-> txs[i].transaction_id]

calculate_block_hash(b) ==
    <<b.index, b.timestamp, b.previous_hash, b.validator_address,
      get_transaction_hashes(b.transactions)>>

Block(index, txs, ts, prev, val) ==
    LET b == [index |-> index, transactions |-> txs, timestamp |-> ts,
              previous_hash |-> prev, validator_address |-> val,
              signature |-> NoSignature, hash |-> <<>>]
    IN  [b EXCEPT !.hash = calculate_block_hash(b)]

\* callers pass the wallet of b.validator_address
sign_block(b, w) == [b EXCEPT !.signature = sign_data(w, b.hash)]

\* what a call of Block.verify_block_signature ends in; it checks the
\* signature against the STORED hash, and both except clauses return False
Block_verify_block_signature(b, pk) ==
    IF b.signature = NoSignature \/ b.hash = <<>> THEN "False"
    ELSE LET r == IF fromhex_signature(b.signature) # "none"
                  THEN fromhex_signature(b.signature)
                  ELSE Wallet_verify_signature(pk, b.hash, b.signature)
         IN  IF r \in {"True", "False"} THEN r ELSE "False"

verify_block_signature(b, pk) == Block_verify_block_signature(b, pk) = "True"

\* the block record of the wire format: every field of the block, the
\* stored hash and the signature included, transactions as records
block_to_dict(b) == [b EXCEPT !.transactions = [i \in 1..Len(@) |-> tx_to_dict(@[i])]]
block_from_dict(d) == [d EXCEPT !.transactions = [i \in 1..Len(@) |-> tx_from_dict(@[i])]]

\* Block.from_dict raises on a payload that lacks a field of the block
BlockFields ==
    {"index", "transactions", "timestamp", "previous_hash", "validator_address",
     "signature", "hash"}
deserializable(d) == DOMAIN d = BlockFields

GenesisBlock(n) == sign_block(Block(0, <<>>, 0, GenesisPreviousHash, GenesisWallet(n)), GenesisWallet(n))

-----------------------------------------------------------------------------
(* State *)

VARIABLES
    chain,                        \* node -> sequence of blocks
    pending_transactions,         \* node -> sequence of transactions
    balances,                     \* node -> [Wallets -> Int]
    total_supply_epc,             \* node -> Int
    network_interface,            \* node -> BOOL: Blockchain.network_interface is set
    validator_manager,            \* node -> registry record (ValidatorManager)
    USER_PUBLIC_KEYS,             \* address -> public key or NoKey (process wide)
    VALIDATOR_WALLETS,            \* set of addresses whose wallet is held (process wide)
    peers,                        \* node -> set of nodes
    seen_tx_ids_broadcast,        \* node -> set of transaction ids
    seen_block_hashes_broadcast,  \* node -> set of block hashes
    syncing_in_progress,          \* node -> BOOL
    clock,                        \* time.time() of the next block
    last,                         \* the last call and what it returned, see Call
    running,                      \* thread of node A -> the call it is inside
    sent,                         \* node -> the POST requests it made, in order
    in_flight,                    \* POST requests made and not yet answered
    draft                         \* a Transaction object in the hands of its sender

vars == <<chain, pending_transactions, balances, total_supply_epc, network_interface,
          validator_manager, USER_PUBLIC_KEYS, VALIDATOR_WALLETS, peers,
          seen_tx_ids_broadcast, seen_block_hashes_broadcast, syncing_in_progress,
          clock, last, running, sent, in_flight, draft>>

NoCall == [op |-> "init", node |-> "A", ret |-> "None", run |-> <<>>, previous |-> "None"]

\* the foreground loop of cmd/node/main.py and two request threads of the
\* HTTP server that start_server launches (app.run serves each request in
\* a thread of its own)
Threads == {"fg", "h1", "h2"}
Idle == [pc |-> "idle"]

NoDraft == [pc |-> "none"]

NoValidator == [registered |-> FALSE, stake |-> 0, is_active |-> FALSE]

\* ValidatorManager.__init__
NewValidatorManager ==
    [validators |-> [a \in Wallets |-> NoValidator],
     min_stake_active |-> MIN_STAKE_TO_BE_ACTIVE,
     active_validator_addresses_round_robin |-> <<>>,
     last_selected_validator_index_rr |-> -1]

\* two Blockchain() objects, each wrapped by a Network
Init ==
    /\ chain = [n \in Nodes |-> <<GenesisBlock(n)>>]
    /\ pending_transactions = [n \in Nodes |-> <<>>]
    /\ balances = [n \in Nodes |->
                     [a \in Wallets |-> IF a = GenesisWallet(n) THEN initial_supply_epc ELSE 0]]
    /\ total_supply_epc = [n \in Nodes |-> initial_supply_epc]
    /\ network_interface = [n \in Nodes |-> TRUE]
    /\ validator_manager = [n \in Nodes |-> NewValidatorManager]
    /\ USER_PUBLIC_KEYS = [a \in Addresses |->
                             IF a \in {GenesisWallet(n) : n \in Nodes}
                             THEN get_public_key_hex(a) ELSE NoKey]
    /\ VALIDATOR_WALLETS = {GenesisWallet(n) : n \in Nodes}
    /\ peers = [n \in Nodes |-> {}]
    /\ seen_tx_ids_broadcast = [n \in Nodes |-> {}]
    /\ seen_block_hashes_broadcast = [n \in Nodes |-> {}]
    /\ syncing_in_progress = [n \in Nodes |-> FALSE]
    /\ clock = 1
    /\ last = NoCall
    /\ running = [t \in Threads |-> Idle]
    /\ sent = [n \in Nodes |-> <<>>]
    /\ in_flight = {}
    /\ draft = NoDraft

\* The code is a set of methods that call each other, across nodes too: a
\* broadcast is a blocking POST that runs the peer's handler before it
\* returns.  Each method is a function from the state of the whole process
\* (a record w of the variables) to the state it leaves; an action applies
\* one top-level call.
World ==
    [chain |-> chain, pending_transactions |-> pending_transactions,
     balances |-> balances, total_supply_epc |-> total_supply_epc,
     network_interface |-> network_interface, validator_manager |-> validator_manager,
     USER_PUBLIC_KEYS |-> USER_PUBLIC_KEYS, VALIDATOR_WALLETS |-> VALIDATOR_WALLETS,
     peers |-> peers, seen_tx_ids_broadcast |-> seen_tx_ids_broadcast,
     seen_block_hashes_broadcast |-> seen_block_hashes_broadcast,
     syncing_in_progress |-> syncing_in_progress, clock |-> clock, sent |-> sent]

Becomes(w) ==
    /\ chain' = w.chain
    /\ pending_transactions' = w.pending_transactions
    /\ balances' = w.balances
    /\ total_supply_epc' = w.total_supply_epc
    /\ network_interface' = w.network_interface
    /\ validator_manager' = w.validator_manager
    /\ USER_PUBLIC_KEYS' = w.USER_PUBLIC_KEYS
    /\ VALIDATOR_WALLETS' = w.VALIDATOR_WALLETS
    /\ peers' = w.peers
    /\ seen_tx_ids_broadcast' = w.seen_tx_ids_broadcast
    /\ seen_block_hashes_broadcast' = w.seen_block_hashes_broadcast
    /\ syncing_in_progress' = w.syncing_in_progress
    /\ clock' = w.clock

\* the bounds of the model, on the state a call leaves
WithinBounds(w) ==
    /\ \A n \in Nodes : Len(w.chain[n]) <= MaxChain
    /\ \A n \in Nodes : Len(w.pending_transactions[n]) <= MaxPending
    /\ w.clock <= MaxClock + 1
    /\ \A n \in Nodes, a \in Wallets : w.validator_manager[n].validators[a].stake <= MaxStake

\* one top-level call that leaves state res.w
Do(res) == WithinBounds(res.w) /\ Becomes(res.w)

\* what the caller of the last call saw.  A specification whose claims speak
\* of return values records them with Returned or Selected; one whose claims
\* speak of the state alone leaves last as it is (Unobserved).
\*   run       the results of the select_next_validator calls made in a row
\*             since any other call
\*   previous  the result of the last select_next_validator call that
\*             returned a validator
Returned(op, n, res) ==
    /\ last' = [op |-> op, node |-> n, ret |-> res.ret, run |-> <<>>, previous |-> last.previous]
    /\ UNCHANGED <<running, sent, in_flight, draft>>

Selected(n, res) ==
    /\ Len(last.run) < MaxSelections
    /\ last' = [op |-> "select_next_validator", node |-> n, ret |-> res.ret,
                run |-> IF res.ret = "None" THEN <<>> ELSE Append(last.run, res.ret),
                previous |-> IF res.ret = "None" THEN last.previous ELSE res.ret]
    /\ UNCHANGED <<running, sent, in_flight, draft>>

Unobserved == UNCHANGED <<last, running, sent, in_flight, draft>>

-----------------------------------------------------------------------------
(* Validator registry (ValidatorManager) as functions on a registry record *)

RECURSIVE SortAddresses(_)
SortAddresses(S) ==
    IF S = {} THEN <<>>
    ELSE LET m == CHOOSE a \in S : \A b \in S : AddressRank(a) <= AddressRank(b)
         IN  <<m>> \o SortAddresses(S \ {m})

get_active_validators(reg) ==
    {a \in Wallets : reg.validators[a].registered /\ reg.validators[a].is_active}

rebuild_active_validator_list_for_round_robin(reg) ==
    LET lst == SortAddresses(get_active_validators(reg))
    IN  [reg EXCEPT !.active_validator_addresses_round_robin = lst,
                    !.last_selected_validator_index_rr = IF @ >= Len(lst) THEN -1 ELSE @]

\* a status update that leaves the flag as it is
update_validator_active_status_stale(reg, a) == reg

update_validator_active_status(reg, a) ==
    LET is_now_active == reg.validators[a].stake >= reg.min_stake_active
    IN  IF reg.validators[a].is_active # is_now_active
        THEN rebuild_active_validator_list_for_round_robin(
                 [reg EXCEPT !.validators[a].is_active = is_now_active])
        ELSE reg

\* an update that clamps at zero where the code rejects ("Or set to 0 and
\* deactivate", manager.py 63)
add_or_update_validator_stake_clamping(reg, a, stake_change) ==
    LET old == IF reg.validators[a].registered THEN reg.validators[a].stake ELSE 0
        new_stake_value == IF old + stake_change < 0 THEN 0 ELSE old + stake_change
        r1 == [reg EXCEPT !.validators[a] =
                  [registered |-> TRUE, stake |-> new_stake_value, is_active |-> @.is_active]]
    IN  [ok |-> TRUE,
         reg |-> rebuild_active_validator_list_for_round_robin(
                     update_validator_active_status(r1, a))]

\* returns [ok, reg]; ok = FALSE is the `return None` of the code
add_or_update_validator_stake(reg, a, stake_change) ==
    IF ~reg.validators[a].registered
    THEN IF stake_change < 0
         THEN [ok |-> FALSE, reg |-> reg]
         ELSE LET r1 == [reg EXCEPT !.validators[a] =
                            [registered |-> TRUE, stake |-> stake_change, is_active |-> FALSE]]
              IN  [ok |-> TRUE,
                   reg |-> rebuild_active_validator_list_for_round_robin(
                               update_validator_active_status(r1, a))]
    ELSE LET new_stake_value == reg.validators[a].stake + stake_change
         IN  IF new_stake_value < 0
             THEN [ok |-> FALSE, reg |-> reg]
             ELSE LET r1 == [reg EXCEPT !.validators[a].stake = new_stake_value]
                  IN  [ok |-> TRUE,
                       reg |-> rebuild_active_validator_list_for_round_robin(
                                   update_validator_active_status(r1, a))]

\* the loop over self.validators.values(); every flag change of one call goes
\* the same way, so the order of the loop does not change its result
RECURSIVE UpdateAllActiveStatus(_, _)
UpdateAllActiveStatus(reg, i) ==
    IF i > Len(AddressOrder) THEN reg
    ELSE IF AddressOrder[i] \in Wallets /\ reg.validators[AddressOrder[i]].registered
         THEN UpdateAllActiveStatus(update_validator_active_status(reg, AddressOrder[i]), i + 1)
         ELSE UpdateAllActiveStatus(reg, i + 1)

set_minimum_stake(reg, min_stake) ==
    rebuild_active_validator_list_for_round_robin(
        UpdateAllActiveStatus([reg EXCEPT !.min_stake_active = min_stake], 1))

\* a selection that restarts from the head of the list on every call
select_next_validator_round_robin_from_head(reg) ==
    LET active_validators == reg.active_validator_addresses_round_robin
    IN  IF active_validators = <<>>
        THEN [selected |-> "None", reg |-> reg]
        ELSE [selected |-> active_validators[1],
              reg |-> [reg EXCEPT !.last_selected_validator_index_rr = 0]]

\* returns [selected, reg]; selected = "None" when no validator is active
select_next_validator_round_robin(reg) ==
    LET active_validators == reg.active_validator_addresses_round_robin
        idx == (reg.last_selected_validator_index_rr + 1) % Len(active_validators)
    IN  IF active_validators = <<>>
        THEN [selected |-> "None", reg |-> reg]
        ELSE [selected |-> active_validators[idx + 1],
              reg |-> [reg EXCEPT !.last_selected_validator_index_rr = idx]]

select_next_validator(reg) == select_next_validator_round_robin(reg)

\* Blockchain.register_validator_wallet
register_validator_wallet(w, n, wallet, stake_amount) ==
    LET res == add_or_update_validator_stake(w.validator_manager[n], wallet, stake_amount)
    IN  IF stake_amount <= 0 THEN [w |-> w, ret |-> "Rejected"]
        ELSE IF ~res.ok THEN [w |-> w, ret |-> "Rejected"]
        ELSE [w |-> [w EXCEPT !.validator_manager[n] = res.reg,
                              !.VALIDATOR_WALLETS = @ \cup {wallet},
                              !.USER_PUBLIC_KEYS[wallet] = get_public_key_hex(wallet)],
              ret |-> "Registered"]

-----------------------------------------------------------------------------
(* Blockchain: balances, mempool admission, block production *)

last_block(w, n) == w.chain[n][Len(w.chain[n])]

RECURSIVE SumSeq(_)
SumSeq(q) == IF q = <<>> THEN 0 ELSE Head(q) + SumSeq(Tail(q))

\* a pruning that leaves the mempool as it is
KeepNotIn_keeps_all(txs, ids) == txs

\* the list comprehension that prunes the mempool
RECURSIVE KeepNotIn(_, _)
KeepNotIn(txs, ids) ==
    IF txs = <<>> THEN <<>>
    ELSE IF Head(txs).transaction_id \in ids THEN KeepNotIn(Tail(txs), ids)
         ELSE <<Head(txs)>> \o KeepNotIn(Tail(txs), ids)

TransactionIds(txs) == {txs[i].transaction_id : i \in 1..Len(txs)}

\* a transfer that credits the receiver without debiting the sender
Transfer_without_debit(bal, tx) ==
    [bal EXCEPT ![tx.receiver_address] = @ + tx.amount]

\* the transfer of tx on a balance dict
Transfer(bal, tx) ==
    LET debited == [bal EXCEPT ![tx.sender_address] = @ - tx.amount]
    IN  [debited EXCEPT ![tx.receiver_address] = @ + tx.amount]

\* an application that wants the sender to keep something
process_transaction_for_state_changes_strict(bal, tx) ==
    IF tx.asset_id # NATIVE_CURRENCY_SYMBOL THEN [ok |-> TRUE, balances |-> bal]
    ELSE IF bal[tx.sender_address] <= tx.amount THEN [ok |-> FALSE, balances |-> bal]
    ELSE [ok |-> TRUE, balances |-> Transfer(bal, tx)]

\* returns [ok, balances]
process_transaction_for_state_changes(bal, tx) ==
    IF tx.asset_id # NATIVE_CURRENCY_SYMBOL THEN [ok |-> TRUE, balances |-> bal]
    ELSE IF bal[tx.sender_address] < tx.amount THEN [ok |-> FALSE, balances |-> bal]
    ELSE [ok |-> TRUE, balances |-> Transfer(bal, tx)]

\* the sum of add_transaction: every pending native transfer of the sender
pending_outgoing_amount(w, n, sender) ==
    LET p == w.pending_transactions[n]
    IN  SumSeq([i \in 1..Len(p) |->
                  IF p[i].sender_address = sender /\ p[i].asset_id = NATIVE_CURRENCY_SYMBOL
                  THEN p[i].amount ELSE 0])

available_balance(w, n, sender) ==
    w.balances[n][sender] - pending_outgoing_amount(w, n, sender)

InMempool(w, n, id) == id \in TransactionIds(w.pending_transactions[n])

\* a snapshot loop that passes over the transactions of other assets
RECURSIVE valid_txs_for_block_native_only(_, _)
valid_txs_for_block_native_only(temp_balances_for_block, txs) ==
    IF txs = <<>> THEN <<>>
    ELSE LET tx == Head(txs)
         IN  IF /\ tx.asset_id = NATIVE_CURRENCY_SYMBOL
                /\ temp_balances_for_block[tx.sender_address] >= tx.amount
             THEN <<tx>> \o valid_txs_for_block_native_only(
                                Transfer(temp_balances_for_block, tx), Tail(txs))
             ELSE valid_txs_for_block_native_only(temp_balances_for_block, Tail(txs))

\* the snapshot loop of mine_pending_transactions: returns the transactions
\* that fit, in mempool order
RECURSIVE valid_txs_for_block(_, _)
valid_txs_for_block(temp_balances_for_block, txs) ==
    IF txs = <<>> THEN <<>>
    ELSE LET tx == Head(txs)
         IN  IF tx.asset_id = NATIVE_CURRENCY_SYMBOL
             THEN IF temp_balances_for_block[tx.sender_address] >= tx.amount
                  THEN <<tx>> \o valid_txs_for_block(Transfer(temp_balances_for_block, tx), Tail(txs))
                  ELSE valid_txs_for_block(temp_balances_for_block, Tail(txs))
             ELSE <<tx>> \o valid_txs_for_block(temp_balances_for_block, Tail(txs))

\* the apply loop of mine_pending_transactions: stops at the first
\* transaction that fails, keeping the changes made so far
RECURSIVE ApplyBlockTransactions(_, _)
ApplyBlockTransactions(bal, txs) ==
    IF txs = <<>> THEN [ok |-> TRUE, balances |-> bal]
    ELSE LET r == process_transaction_for_state_changes(bal, Head(txs))
         IN  IF r.ok THEN ApplyBlockTransactions(r.balances, Tail(txs))
             ELSE [ok |-> FALSE, balances |-> r.balances]

\* an apply loop that leaves the balances as they are
ApplyReceived_nothing(bal, txs) == bal

\* the apply loop of handle_received_block: the result of each call is dropped
RECURSIVE ApplyReceived(_, _)
ApplyReceived(bal, txs) ==
    IF txs = <<>> THEN bal
    ELSE ApplyReceived(process_transaction_for_state_changes(bal, Head(txs)).balances, Tail(txs))

\* a snapshot loop that finds every block in order
valid_block_transactions_unchecked(temp_balances, txs) == TRUE

\* the snapshot loop of handle_received_block: TRUE iff every native
\* transfer fits, in block order
RECURSIVE valid_block_transactions(_, _)
valid_block_transactions(temp_balances, txs) ==
    IF txs = <<>> THEN TRUE
    ELSE LET tx == Head(txs)
         IN  IF tx.asset_id = NATIVE_CURRENCY_SYMBOL
             THEN /\ temp_balances[tx.sender_address] >= tx.amount
                  /\ valid_block_transactions(Transfer(temp_balances, tx), Tail(txs))
             ELSE valid_block_transactions(temp_balances, Tail(txs))

\* list(self.peers): the iteration order of a set, fixed here; with two
\* nodes a node has at most one peer
RECURSIVE PeerList(_)
PeerList(S) ==
    IF S = {} THEN <<>>
    ELSE LET m == CHOOSE a \in S : \A b \in S : a = b \/ <<a, b>> \in {<<"A", "B">>}
         IN  <<m>> \o PeerList(S \ {m})

OnChain(w, n, id) ==
    \E i \in 1..Len(w.chain[n]) : id \in TransactionIds(w.chain[n][i].transactions)

KnownBlock(w, n, h) == \E i \in 1..Len(w.chain[n]) : w.chain[n][i].hash = h

-----------------------------------------------------------------------------
(* Transactions: admission and gossip.  _send_http_request blocks until   *)
(* the peer's handler has run; up is the set of links <<from, to>> on     *)
(* which a request of this call gets through.                             *)

RECURSIVE add_transaction(_, _, _, _, _, _)
RECURSIVE broadcast_transaction(_, _, _, _)
RECURSIVE PostTransaction(_, _, _, _, _)
RECURSIVE handle_received_transaction(_, _, _, _)

\* an admission that wants the sender's balance to cover any asset
add_transaction_funding_any_asset(w, n, transaction, sender_public_key_hex, received_from_network, up) ==
    IF ~tx_verify_signature(transaction, sender_public_key_hex)
    THEN [w |-> w, ret |-> "False"]
    ELSE IF available_balance(w, n, transaction.sender_address) < transaction.amount
    THEN [w |-> w, ret |-> "False"]
    ELSE IF InMempool(w, n, transaction.transaction_id)
    THEN [w |-> w, ret |-> "True"]
    ELSE LET w1 == [w EXCEPT !.pending_transactions[n] = Append(@, transaction)]
         IN  [w |-> IF w.network_interface[n] /\ ~received_from_network
                    THEN broadcast_transaction(w1, n, transaction, up)
                    ELSE w1,
              ret |-> "True"]

\* Blockchain.add_transaction; returns [w, ret], ret the bool of the code
add_transaction(w, n, transaction, sender_public_key_hex, received_from_network, up) ==
    IF ~tx_verify_signature(transaction, sender_public_key_hex)
    THEN [w |-> w, ret |-> "False"]
    ELSE IF /\ transaction.asset_id = NATIVE_CURRENCY_SYMBOL
            /\ available_balance(w, n, transaction.sender_address) < transaction.amount
    THEN [w |-> w, ret |-> "False"]
    ELSE IF InMempool(w, n, transaction.transaction_id)
    THEN [w |-> w, ret |-> "True"]
    ELSE LET w1 == [w EXCEPT !.pending_transactions[n] = Append(@, transaction)]
         IN  [w |-> IF w.network_interface[n] /\ ~received_from_network
                    THEN broadcast_transaction(w1, n, transaction, up)
                    ELSE w1,
              ret |-> "True"]

\* a broadcast that does not look at the seen set
broadcast_transaction_again(w, n, transaction, up) ==
    PostTransaction([w EXCEPT !.seen_tx_ids_broadcast[n] = @ \cup {transaction.transaction_id}],
                    n, PeerList(w.peers[n]), tx_to_dict(transaction), up)

\* Network.broadcast_transaction
broadcast_transaction(w, n, transaction, up) ==
    IF transaction.transaction_id \in w.seen_tx_ids_broadcast[n] THEN w
    ELSE PostTransaction([w EXCEPT !.seen_tx_ids_broadcast[n] = @ \cup {transaction.transaction_id}],
                         n, PeerList(w.peers[n]), tx_to_dict(transaction), up)

\* the loop of broadcast_transaction over the peers ps: each POST is sent
\* (and recorded in sent[n]); it reaches the handler of the peer when the
\* link is up
PostTransaction(w, n, ps, tx_data, up) ==
    IF ps = <<>> THEN w
    ELSE LET w1 == [w EXCEPT !.sent[n] =
                        Append(@, [to |-> Head(ps), kind |-> "NEW_TRANSACTION",
                                   item |-> tx_data.transaction_id, data |-> tx_data])]
         IN  PostTransaction(
                 IF <<n, Head(ps)>> \in up
                 THEN handle_received_transaction(w1, Head(ps), tx_data, up).w
                 ELSE w1,
                 n, Tail(ps), tx_data, up)

\* a handler that passes on whatever it receives
handle_received_transaction_relaying(w, n, tx_data, up) ==
    [w |-> PostTransaction(w, n, PeerList(w.peers[n]), tx_data, up), ret |-> "True"]

\* Network.handle_received_transaction; returns [w, ret]
handle_received_transaction(w, n, tx_data, up) ==
    LET transaction == tx_from_dict(tx_data)
        sender_public_key_hex == w.USER_PUBLIC_KEYS[transaction.sender_address]
        original_bc_net_interface == w.network_interface[n]
        added == add_transaction([w EXCEPT !.network_interface[n] = FALSE], n,
                                 transaction, sender_public_key_hex, TRUE, up)
        w1 == [added.w EXCEPT !.network_interface[n] = original_bc_net_interface]
    IN  IF InMempool(w, n, tx_data.transaction_id) \/ OnChain(w, n, tx_data.transaction_id)
        THEN [w |-> w, ret |-> "True"]
        ELSE IF transaction.transaction_id # tx_data.transaction_id
        THEN [w |-> w, ret |-> "False"]
        ELSE IF sender_public_key_hex = NoKey
        THEN [w |-> w, ret |-> "False"]
        ELSE IF added.ret = "True"
        THEN [w |-> IF transaction.transaction_id \notin w1.seen_tx_ids_broadcast[n]
                    THEN broadcast_transaction(w1, n, transaction, up)
                    ELSE w1,
              ret |-> "True"]
        ELSE [w |-> w1, ret |-> "False"]

-----------------------------------------------------------------------------
(* Chain synchronisation *)

\* the /get_chain route: the serialized chain of node m
get_chain_endpoint(w, m) == [i \in 1..Len(w.chain[m]) |-> block_to_dict(w.chain[m][i])]

\* the transaction loop of handle_chain_response for one block; returns
\* [valid_so_far, balances]
RECURSIVE ReplayProspective(_, _, _)
ReplayProspective(keys, bal, txs) ==
    IF txs = <<>> THEN [valid_so_far |-> TRUE, balances |-> bal]
    ELSE LET tx == Head(txs)
             tx_sender_pk == keys[tx.sender_address]
         IN  IF tx_sender_pk = NoKey \/ ~tx_verify_signature(tx, tx_sender_pk)
             THEN [valid_so_far |-> FALSE, balances |-> bal]
             ELSE IF tx.asset_id = NATIVE_CURRENCY_SYMBOL
             THEN IF bal[tx.sender_address] < tx.amount
                  THEN [valid_so_far |-> FALSE, balances |-> bal]
                  ELSE ReplayProspective(keys, Transfer(bal, tx), Tail(txs))
             ELSE ReplayProspective(keys, bal, Tail(txs))

\* the block loop of handle_chain_response from block i (1-based) on;
\* blocks before i are already on temp_bc.chain
RECURSIVE ValidateProspective(_, _, _, _)
ValidateProspective(keys, prospective_chain, bal, i) ==
    IF i > Len(prospective_chain) THEN [valid_so_far |-> TRUE, balances |-> bal]
    ELSE LET block_to_validate == prospective_chain[i]
             prev_b == prospective_chain[i - 1]
             val_pk == keys[block_to_validate.validator_address]
             r == ReplayProspective(keys, bal, block_to_validate.transactions)
         IN  IF \/ block_to_validate.previous_hash # prev_b.hash
                \/ block_to_validate.index # i - 1
                \/ block_to_validate.hash # calculate_block_hash(block_to_validate)
             THEN [valid_so_far |-> FALSE, balances |-> bal]
             ELSE IF val_pk = NoKey \/ ~verify_block_signature(block_to_validate, val_pk)
             THEN [valid_so_far |-> FALSE, balances |-> bal]
             ELSE IF ~r.valid_so_far THEN r
             ELSE ValidateProspective(keys, prospective_chain, r.balances, i + 1)

\* a re-seeding that forgets the genesis block
ChainBlockHashes_without_genesis(c) == {c[i].hash : i \in 2..Len(c)}

ChainBlockHashes(c) == {c[i].hash : i \in 1..Len(c)}
ChainTransactionIds(c) == UNION {TransactionIds(c[i].transactions) : i \in 1..Len(c)}

NoBalances == [a \in Wallets |-> 0]

\* handle_chain_response up to its decision; returns [adopt, w,
\* prospective_chain, balances], w being the state the checks leave
validate_chain_response(w, n, received_chain_dicts) ==
    LET no == [adopt |-> FALSE, w |-> w, prospective_chain |-> <<>>, balances |-> NoBalances]
    IN  IF received_chain_dicts = <<>> THEN no
        ELSE IF Len(received_chain_dicts) <= Len(w.chain[n]) THEN no
        ELSE IF \E i \in 1..Len(received_chain_dicts) : ~deserializable(received_chain_dicts[i])
        THEN no
        ELSE LET prospective_chain == [i \in 1..Len(received_chain_dicts) |->
                                         block_from_dict(received_chain_dicts[i])]
                 \* temp_bc = Blockchain(): its genesis wallet enters the registries
                 w1 == [w EXCEPT !.VALIDATOR_WALLETS = @ \cup {TempWallet},
                                 !.USER_PUBLIC_KEYS[TempWallet] = get_public_key_hex(TempWallet)]
                 genesis_val_pk == w1.USER_PUBLIC_KEYS[prospective_chain[1].validator_address]
                 seed == [NoBalances EXCEPT ![prospective_chain[1].validator_address] =
                                                w.total_supply_epc[n]]
                 temp_bc == ValidateProspective(w1.USER_PUBLIC_KEYS, prospective_chain, seed, 2)
             IN  IF Len(w.chain[n]) > 1 /\ prospective_chain[1].hash # w.chain[n][1].hash
                 THEN [no EXCEPT !.w = w1]
                 ELSE IF genesis_val_pk = NoKey
                         \/ ~verify_block_signature(prospective_chain[1], genesis_val_pk)
                 THEN [no EXCEPT !.w = w1]
                 ELSE IF ~temp_bc.valid_so_far THEN [no EXCEPT !.w = w1]
                 ELSE [adopt |-> TRUE, w |-> w1, prospective_chain |-> prospective_chain,
                       balances |-> temp_bc.balances]

\* the assignments of handle_chain_response once the chain is accepted
adopt_chain(w, n, prospective_chain, bal) ==
    [w EXCEPT !.chain[n] = prospective_chain,
              !.balances[n] = bal,
              !.pending_transactions[n] = <<>>,
              !.seen_block_hashes_broadcast[n] = ChainBlockHashes(prospective_chain),
              !.seen_tx_ids_broadcast[n] = ChainTransactionIds(prospective_chain),
              !.sent[n] = Append(@, [to |-> n, kind |-> "REPLACED",
                                     item |-> Len(prospective_chain), data |-> <<>>])]

\* a handler that empties the mempool before it looks at the chain
handle_chain_response_clearing(w, n, received_chain_dicts) ==
    LET w0 == [w EXCEPT !.pending_transactions[n] = <<>>]
        v == validate_chain_response(w0, n, received_chain_dicts)
    IN  IF v.adopt THEN adopt_chain(v.w, n, v.prospective_chain, v.balances) ELSE v.w

\* Network.handle_chain_response; returns the state it leaves
handle_chain_response(w, n, received_chain_dicts) ==
    LET v == validate_chain_response(w, n, received_chain_dicts)
    IN  IF v.adopt THEN adopt_chain(v.w, n, v.prospective_chain, v.balances) ELSE v.w

\* Network.request_chain_from_peer; returns the state it leaves
request_chain_from_peer(w, n, peer_node, up) ==
    IF w.syncing_in_progress[n] THEN w
    ELSE LET w1 == [w EXCEPT !.syncing_in_progress[n] = TRUE]
             w2 == IF <<n, peer_node>> \in up
                   THEN handle_chain_response(w1, n, get_chain_endpoint(w1, peer_node))
                   ELSE w1
         IN  [w2 EXCEPT !.syncing_in_progress[n] = FALSE]

-----------------------------------------------------------------------------
(* Blocks: production, gossip, inbound acceptance *)

RECURSIVE broadcast_block(_, _, _, _)
RECURSIVE PostBlock(_, _, _, _, _)
RECURSIVE handle_received_block(_, _, _, _)

\* Network.broadcast_block
broadcast_block(w, n, block, up) ==
    IF block.hash \in w.seen_block_hashes_broadcast[n] THEN w
    ELSE PostBlock([w EXCEPT !.seen_block_hashes_broadcast[n] = @ \cup {block.hash}],
                   n, PeerList(w.peers[n]), block_to_dict(block), up)

\* the loop of broadcast_block over the peers ps
PostBlock(w, n, ps, block_data, up) ==
    IF ps = <<>> THEN w
    ELSE LET w1 == [w EXCEPT !.sent[n] =
                        Append(@, [to |-> Head(ps), kind |-> "NEW_BLOCK",
                                   item |-> block_data.hash, data |-> block_data])]
         IN  PostBlock(
                 IF <<n, Head(ps)>> \in up
                 THEN handle_received_block(w1, Head(ps), block_data, up).w
                 ELSE w1,
                 n, Tail(ps), block_data, up)

\* the signature checks of handle_received_block over the transactions
ReceivedTransactionsSigned(keys, txs) ==
    \A i \in 1..Len(txs) :
        /\ keys[txs[i].sender_address] # NoKey
        /\ tx_verify_signature(txs[i], keys[txs[i].sender_address])

\* a branching that asks for a chain only when the block is beyond the tip
received_block_branch_beyond_tip(w, n, block_data) ==
    LET received_block == block_from_dict(block_data)
        current_chain_length == Len(w.chain[n])
        validator_pub_key == w.USER_PUBLIC_KEYS[received_block.validator_address]
    IN  IF KnownBlock(w, n, received_block.hash) THEN "known"
        ELSE IF validator_pub_key = NoKey THEN "rejected"
        ELSE IF received_block.hash # calculate_block_hash(received_block) THEN "rejected"
        ELSE IF ~verify_block_signature(received_block, validator_pub_key) THEN "rejected"
        ELSE IF ~ReceivedTransactionsSigned(w.USER_PUBLIC_KEYS, received_block.transactions)
        THEN "rejected"
        ELSE IF /\ received_block.index = current_chain_length
                /\ received_block.previous_hash = last_block(w, n).hash
        THEN IF ~valid_block_transactions(w.balances[n], received_block.transactions)
             THEN "rejected"
             ELSE "extends"
        ELSE IF received_block.index > current_chain_length /\ ~w.syncing_in_progress[n]
        THEN "behind"
        ELSE "stale"

\* the branch handle_received_block takes: "known", "rejected", "extends",
\* "behind" (a chain is requested) or "stale"
received_block_branch(w, n, block_data) ==
    LET received_block == block_from_dict(block_data)
        current_chain_length == Len(w.chain[n])
        validator_pub_key == w.USER_PUBLIC_KEYS[received_block.validator_address]
    IN  IF KnownBlock(w, n, received_block.hash) THEN "known"
        ELSE IF validator_pub_key = NoKey THEN "rejected"
        ELSE IF received_block.hash # calculate_block_hash(received_block) THEN "rejected"
        ELSE IF ~verify_block_signature(received_block, validator_pub_key) THEN "rejected"
        ELSE IF ~ReceivedTransactionsSigned(w.USER_PUBLIC_KEYS, received_block.transactions)
        THEN "rejected"
        ELSE IF /\ received_block.index = current_chain_length
                /\ received_block.previous_hash = last_block(w, n).hash
        THEN IF ~valid_block_transactions(w.balances[n], received_block.transactions)
             THEN "rejected"
             ELSE "extends"
        ELSE IF received_block.index >= current_chain_length /\ ~w.syncing_in_progress[n]
        THEN "behind"
        ELSE "stale"

\* Network.handle_received_block; returns [w, ret]
handle_received_block(w, n, block_data, up) ==
    LET received_block == block_from_dict(block_data)
        branch == received_block_branch(w, n, block_data)
        mined_tx_ids == TransactionIds(received_block.transactions)
        w1 == [w EXCEPT !.balances[n] = ApplyReceived(@, received_block.transactions),
                        !.chain[n] = Append(@, received_block),
                        !.pending_transactions[n] = KeepNotIn(@, mined_tx_ids)]
    IN  IF branch = "known" THEN [w |-> w, ret |-> "True"]
        ELSE IF branch = "extends"
        THEN [w |-> IF received_block.hash \notin w1.seen_block_hashes_broadcast[n]
                    THEN broadcast_block(w1, n, received_block, up)
                    ELSE w1,
              ret |-> "True"]
        ELSE IF branch = "behind"
        THEN [w |-> IF w.peers[n] # {}
                    THEN request_chain_from_peer(w, n, PeerList(w.peers[n])[1], up)
                    ELSE w,
              ret |-> "False"]
        ELSE [w |-> w, ret |-> "False"]

\* a mining attempt that drops the mempool when it gives up
mine_pending_transactions_dropping(w, n, up) ==
    LET sel == select_next_validator(w.validator_manager[n])
    IN  [w |-> [w EXCEPT !.validator_manager[n] = sel.reg, !.pending_transactions[n] = <<>>],
         ret |-> "None"]

\* Blockchain.mine_pending_transactions; returns [w, ret], ret "Block" or
\* "None".  The cursor of the registry moves before any other check.
mine_pending_transactions(w, n, up) ==
    LET sel == select_next_validator(w.validator_manager[n])
        w0 == [w EXCEPT !.validator_manager[n] = sel.reg]
        selected_validator_address == sel.selected
        txs == valid_txs_for_block(w.balances[n], w.pending_transactions[n])
        new_block == sign_block(Block(Len(w.chain[n]), txs, w.clock, last_block(w, n).hash,
                                      selected_validator_address),
                                selected_validator_address)
        applied == ApplyBlockTransactions(w.balances[n], new_block.transactions)
        mined_tx_ids == TransactionIds(new_block.transactions)
        w1 == [w0 EXCEPT !.balances[n] = applied.balances,
                         !.chain[n] = Append(@, new_block),
                         !.pending_transactions[n] = KeepNotIn(@, mined_tx_ids),
                         !.clock = @ + 1]
    IN  IF selected_validator_address = "None" THEN [w |-> w0, ret |-> "None"]
        ELSE IF selected_validator_address \notin w.VALIDATOR_WALLETS
        THEN [w |-> w0, ret |-> "None"]
        ELSE IF w.pending_transactions[n] = <<>> THEN [w |-> w0, ret |-> "None"]
        ELSE IF txs = <<>> THEN [w |-> w0, ret |-> "None"]
        ELSE IF ~applied.ok
        THEN [w |-> [w0 EXCEPT !.balances[n] = applied.balances, !.clock = @ + 1],
              ret |-> "None"]
        ELSE [w |-> IF w.network_interface[n] THEN broadcast_block(w1, n, new_block, up) ELSE w1,
              ret |-> "Block"]

-----------------------------------------------------------------------------
(* Peers *)

RECURSIVE connect_to_peer(_, _, _, _)
RECURSIVE add_peer(_, _, _, _)
RECURSIVE ConnectToEach(_, _, _, _)

\* Network.connect_to_peer; returns [w, ret]
connect_to_peer(w, n, peer_address, up) ==
    IF peer_address = n THEN [w |-> w, ret |-> "False"]
    ELSE IF <<n, peer_address>> \notin up THEN [w |-> w, ret |-> "False"]
    ELSE LET added == add_peer(w, n, peer_address, up)
             w1 == added.w
         IN  [w |-> IF (added.ret = "True" \/ peer_address \in w1.peers[n])
                       /\ Len(w1.chain[n]) = 1 /\ ~w1.syncing_in_progress[n]
                    THEN request_chain_from_peer(w1, n, peer_address, up)
                    ELSE w1,
              ret |-> added.ret]

\* Network.add_peer followed by request_peers_from; returns [w, ret]
add_peer(w, n, peer_node, up) ==
    IF peer_node = n \/ peer_node \in w.peers[n] THEN [w |-> w, ret |-> "False"]
    ELSE LET w1 == [w EXCEPT !.peers[n] = @ \cup {peer_node}]
         IN  [w |-> IF <<n, peer_node>> \in up
                    THEN ConnectToEach(w1, n, PeerList(w1.peers[peer_node]), up)
                    ELSE w1,
              ret |-> "True"]

\* the loop of request_peers_from over the addresses the peer answered
ConnectToEach(w, n, addrs, up) ==
    IF addrs = <<>> THEN w
    ELSE ConnectToEach(
             IF Head(addrs) # n /\ Head(addrs) \notin w.peers[n]
             THEN connect_to_peer(w, n, Head(addrs), up).w
             ELSE w,
             n, Tail(addrs), up)

-----------------------------------------------------------------------------
(* Blockchain.is_chain_valid, as the kind of the first check that fails *)

\* ValidatorManager.get_validator: is a Validator object returned
get_validator(reg, a) == a \in Wallets /\ reg.validators[a].registered

\* the transaction loop of is_chain_valid for one block; returns
\* [kind, balances]
RECURSIVE ReplayTransactions(_, _, _)
ReplayTransactions(keys, bal, txs) ==
    IF txs = <<>> THEN [kind |-> "Valid", balances |-> bal]
    ELSE LET tx == Head(txs)
             sender_public_key_hex == keys[tx.sender_address]
         IN  IF sender_public_key_hex = NoKey
             THEN [kind |-> "UnknownSender", balances |-> bal]
             ELSE IF ~tx_verify_signature(tx, sender_public_key_hex)
             THEN [kind |-> "InvalidTxSignature", balances |-> bal]
             ELSE IF tx.asset_id = NATIVE_CURRENCY_SYMBOL
             THEN IF bal[tx.sender_address] < tx.amount
                  THEN [kind |-> "ReplayInsufficientFunds", balances |-> bal]
                  ELSE ReplayTransactions(keys, Transfer(bal, tx), Tail(txs))
             ELSE ReplayTransactions(keys, bal, Tail(txs))

\* the checks of is_chain_valid on block i (1-based) before its transactions
BlockCheck(w, n, i) ==
    LET current_block == w.chain[n][i]
        key == w.USER_PUBLIC_KEYS[current_block.validator_address]
    IN  IF current_block.hash # calculate_block_hash(current_block) THEN "InvalidHash"
        ELSE IF i > 1
        THEN IF current_block.previous_hash # w.chain[n][i - 1].hash THEN "BrokenLink"
             ELSE IF key = NoKey THEN "UnknownValidator"
             ELSE IF ~get_validator(w.validator_manager[n], current_block.validator_address)
             THEN "ValidatorNotInManager"
             ELSE IF ~verify_block_signature(current_block, key) THEN "InvalidBlockSignature"
             ELSE "Valid"
        ELSE IF current_block.signature # NoSignature
        THEN IF key = NoKey THEN "UnknownValidator"
             ELSE IF ~verify_block_signature(current_block, key) THEN "InvalidBlockSignature"
             ELSE "Valid"
        ELSE "Valid"

\* the block loop of is_chain_valid from block i on, then the comparison
\* of the replayed balances with the stored ones
RECURSIVE ValidateBlocks(_, _, _, _)
ValidateBlocks(w, n, i, bal) ==
    IF i > Len(w.chain[n])
    THEN IF Len(w.chain[n]) > 1 /\ bal # w.balances[n] THEN "BalanceMismatch" ELSE "Valid"
    ELSE LET r == ReplayTransactions(w.USER_PUBLIC_KEYS, bal, w.chain[n][i].transactions)
         IN  IF BlockCheck(w, n, i) # "Valid" THEN BlockCheck(w, n, i)
             ELSE IF r.kind # "Valid" THEN r.kind
             ELSE ValidateBlocks(w, n, i + 1, r.balances)

\* temp_balances_for_validation after the genesis seed
GenesisAllocation(w, n) ==
    IF w.chain[n][1].transactions = <<>> /\ w.chain[n][1].validator_address \in Wallets
    THEN [NoBalances EXCEPT ![w.chain[n][1].validator_address] = w.total_supply_epc[n]]
    ELSE NoBalances

ChainValidationKind(w, n) == ValidateBlocks(w, n, 1, GenesisAllocation(w, n))

is_chain_valid(w, n) == ChainValidationKind(w, n) = "Valid"

-----------------------------------------------------------------------------
(* The registry calls on the state of the process: each returns [w, ret] *)

manager_add_or_update_validator_stake(w, n, a, stake_change) ==
    LET res == add_or_update_validator_stake(w.validator_manager[n], a, stake_change)
    IN  [w |-> [w EXCEPT !.validator_manager[n] = res.reg],
         ret |-> IF res.ok THEN "Validator" ELSE "None"]

manager_set_minimum_stake(w, n, min_stake) ==
    IF min_stake < 0 THEN [w |-> w, ret |-> "ValueError"]
    ELSE [w |-> [w EXCEPT !.validator_manager[n] = set_minimum_stake(@, min_stake)],
          ret |-> "None"]

manager_select_next_validator(w, n) ==
    LET sel == select_next_validator(w.validator_manager[n])
    IN  [w |-> [w EXCEPT !.validator_manager[n] = sel.reg], ret |-> sel.selected]

\* USER_PUBLIC_KEYS[wallet.address] = wallet.get_public_key_hex(), as
\* cmd/node/main.py and the test fixtures do for a wallet they hold
publish_public_key(w, a) ==
    [w |-> [w EXCEPT !.USER_PUBLIC_KEYS[a] = get_public_key_hex(a)], ret |-> "None"]

-----------------------------------------------------------------------------
(* Actions: one top-level call each *)

Links == {l \in Nodes \X Nodes : l[1] # l[2]}

AddTransaction(n, tx, pk, up) == Do(add_transaction(World, n, tx, pk, FALSE, up))

MinePendingTransactions(n, up) == Do(mine_pending_transactions(World, n, up))

RegisterValidatorWallet(n, wallet, stake_amount) ==
    Do(register_validator_wallet(World, n, wallet, stake_amount))

AddOrUpdateValidatorStake(n, a, stake_change) ==
    Do(manager_add_or_update_validator_stake(World, n, a, stake_change))

SetMinimumStake(n, min_stake) == Do(manager_set_minimum_stake(World, n, min_stake))

SelectNextValidator(n) == Do(manager_select_next_validator(World, n))

PublishPublicKey(a) == Do(publish_public_key(World, a))

ConnectToPeer(n, peer_address, up) == Do(connect_to_peer(World, n, peer_address, up))

RequestChainFromPeer(n, peer_node, up) ==
    Do([w |-> request_chain_from_peer(World, n, peer_node, up), ret |-> "None"])

HandleChainResponse(n, received_chain_dicts) ==
    Do([w |-> handle_chain_response(World, n, received_chain_dicts), ret |-> "None"])

HandleReceivedTransaction(n, tx_data, up) ==
    Do(handle_received_transaction(World, n, tx_data, up))

HandleReceivedBlock(n, block_data, up) ==
    Do(handle_received_block(World, n, block_data, up))

-----------------------------------------------------------------------------
(* Spec: two nodes on a network.  Clients submit to either node, "al"     *)
(* stakes on either node, either node mines, connects and pulls chains.   *)
(* The claims checked here speak of the state alone.                      *)

\* what clients submit: the genesis validator of node A funds "al", "al"
\* pays "bo"; each signed by its sender and submitted with the sender's key
HonestTransactions ==
    {sign(Transaction("gA", "al", 2, NATIVE_CURRENCY_SYMBOL, 1), "gA"),
     sign(Transaction("al", "bo", 1, NATIVE_CURRENCY_SYMBOL, 2), "al")}

Next ==
    \/ \E n \in Nodes, tx \in HonestTransactions, up \in SUBSET Links :
           AddTransaction(n, tx, get_public_key_hex(tx.sender_address), up) /\ Unobserved
    \/ \E n \in Nodes, up \in SUBSET Links : MinePendingTransactions(n, up) /\ Unobserved
    \/ \E n \in Nodes : RegisterValidatorWallet(n, "al", 100) /\ Unobserved
    \/ \E n \in Nodes, m \in Nodes, up \in SUBSET Links :
           ConnectToPeer(n, m, up) /\ Unobserved
    \/ \E n \in Nodes, m \in Nodes, up \in SUBSET Links :
           n # m /\ RequestChainFromPeer(n, m, up) /\ Unobserved

Spec == Init /\ [][Next]_vars

RECURSIVE SumOver(_, _)
SumOver(bal, S) ==
    IF S = {} THEN 0
    ELSE LET a == CHOOSE x \in S : TRUE IN bal[a] + SumOver(bal, S \ {a})

\* C1: on every node, in every reachable state, the balances add up to the
\* total supply fixed at genesis; while the chain is the genesis block alone
\* the genesis validator holds all of it.
C1_SupplyConserved ==
    \A n \in Nodes :
        /\ SumOver(balances[n], Wallets) = total_supply_epc[n]
        /\ total_supply_epc[n] = initial_supply_epc
        /\ Len(chain[n]) = 1 => balances[n][chain[n][1].validator_address] = total_supply_epc[n]

\* a node that pulled the other node's chain and then took a gossiped block,
\* with both transfers confirmed
C1_Witness ==
    /\ chain["B"][1] = GenesisBlock("A")
    /\ Len(chain["B"]) = 3
    /\ balances["B"]["bo"] = 1
    /\ balances["B"]["gA"] = initial_supply_epc - 2

\* C5: a block appended to a node's chain, mined there or taken from the
\* network, names a validator that the node's registry holds as registered
\* and active when the block is appended.
C5_AppendedByActiveValidator ==
    [][\A n \in Nodes :
          (/\ Len(chain'[n]) = Len(chain[n]) + 1
           /\ SubSeq(chain'[n], 1, Len(chain[n])) = chain[n])
          => LET v == chain'[n][Len(chain'[n])].validator_address
             IN  /\ validator_manager'[n].validators[v].registered
                 /\ validator_manager'[n].validators[v].is_active]_vars

\* node n replaced its chain in a pull from node m
Adopted(n, m) ==
    /\ n # m
    /\ chain'[n] # chain[n]
    /\ \E up \in SUBSET Links : RequestChainFromPeer(n, m, up) \/ ConnectToPeer(n, m, up)

C2_ExactlyOnce ==
    \A n \in Nodes :
        \A i \in 1..Len(chain[n]), k \in 1..Len(chain[n]) :
            \A j \in 1..Len(chain[n][i].transactions), l \in 1..Len(chain[n][k].transactions) :
                chain[n][i].transactions[j].transaction_id = chain[n][k].transactions[l].transaction_id
                => (i = k /\ j = l)

-----------------------------------------------------------------------------------------------------------------------------------------------------
(* SpecLedger: one node, no peers.  Clients submit whatever add_transaction *)
(* takes: honest transfers, transfers of negative amounts (the code sets no  *)
(* lower bound on the amount), and a transfer that names "gA"               *)
(* as sender but is signed by "al" and submitted with the key of "al".      *)
(* "v1" stakes and mines; the key of "al" is published at some point, or    *)
(* never.                                                                   *)

LedgerTransactions ==
    {sign(Transaction("gA", "al", 1, NATIVE_CURRENCY_SYMBOL, 1), "gA"),
     sign(Transaction("al", "bo", 1, NATIVE_CURRENCY_SYMBOL, 2), "al"),
     sign(Transaction("al", "bo", -1, NATIVE_CURRENCY_SYMBOL, 2), "al"),
     sign(Transaction("gA", "al", -2, NATIVE_CURRENCY_SYMBOL, 1), "gA"),
     sign(Transaction("gA", "bo", 1, NATIVE_CURRENCY_SYMBOL, 3), "al")}

\* the keys a client supplies: the sender's or the signer's
SuppliedKeys(tx) ==
    {get_public_key_hex(tx.sender_address), get_public_key_hex(tx.signature.signer)}

NextLedger ==
    \/ \E tx \in LedgerTransactions : \E pk \in SuppliedKeys(tx) :
           AddTransaction("A", tx, pk, {}) /\ Unobserved
    \/ MinePendingTransactions("A", {}) /\ Unobserved
    \/ RegisterValidatorWallet("A", "v1", 100) /\ Unobserved
    \/ PublishPublicKey("al") /\ Unobserved

SpecLedger == Init /\ [][NextLedger]_vars

\* the sum of the sender's pending native transfers other than tx, on node A
OtherPendingOutgoing(tx) ==
    LET p == pending_transactions["A"]
    IN  SumSeq([i \in 1..Len(p) |->
                  IF /\ p[i].sender_address = tx.sender_address
                     /\ p[i].asset_id = NATIVE_CURRENCY_SYMBOL
                     /\ p[i].transaction_id # tx.transaction_id
                  THEN p[i].amount ELSE 0])

\* C3: add_transaction returns failure and leaves the mempool as it is for
\* every native transfer whose amount exceeds the sender's confirmed balance
\* minus the sender's other pending native transfers; a validly signed
\* transfer that is not pending and fits that figure is accepted into the
\* mempool (so a rejected one is accepted once the sender has been credited).
C3_DoubleSpendSafeAdmission ==
    \A tx \in LedgerTransactions : \A pk \in SuppliedKeys(tx) :
        LET res == add_transaction(World, "A", tx, pk, FALSE, {})
            available == balances["A"][tx.sender_address] - OtherPendingOutgoing(tx)
        IN  /\ (tx.asset_id = NATIVE_CURRENCY_SYMBOL /\ tx.amount > available)
               => (res.ret = "False" /\ res.w.pending_transactions = pending_transactions)
            /\ (/\ tx.asset_id = NATIVE_CURRENCY_SYMBOL
                /\ tx.amount <= available
                /\ tx_verify_signature(tx, pk)
                /\ \A i \in 1..Len(pending_transactions["A"]) :
                       pending_transactions["A"][i].transaction_id # tx.transaction_id)
               => (res.ret = "True"
                   /\ res.w.pending_transactions["A"] = Append(pending_transactions["A"], tx))

\* C4: add_transaction with a validly signed transaction whose identifier is
\* already in the mempool or in a committed block returns success and leaves
\* the mempool as it is, whatever the sender's available balance.
C4_IdempotentAdmission ==
    \A tx \in LedgerTransactions : \A pk \in SuppliedKeys(tx) :
        LET res == add_transaction(World, "A", tx, pk, FALSE, {})
            known == \/ \E i \in 1..Len(pending_transactions["A"]) :
                            pending_transactions["A"][i].transaction_id = tx.transaction_id
                     \/ \E i \in 1..Len(chain["A"]) :
                            \E j \in 1..Len(chain["A"][i].transactions) :
                                chain["A"][i].transactions[j].transaction_id = tx.transaction_id
        IN  (tx_verify_signature(tx, pk) /\ known)
            => (res.ret = "True" /\ res.w.pending_transactions = pending_transactions)

\* the state of the process with the chain of node A replaced by c
WithChain(c) == [World EXCEPT !.chain["A"] = c]

\* C10: is_chain_valid is true of every chain the node's own operations
\* produce, and after one corruption of a transaction signature, of a block
\* signature (genesis included) or of a stored block hash it is false with
\* the kind InvalidTxSignature, InvalidBlockSignature or InvalidHash.
C10_ValidationDetectsTampering ==
    LET c == chain["A"]
    IN  /\ is_chain_valid(World, "A")
        /\ \A i \in 1..Len(c) :
               /\ ChainValidationKind(
                      WithChain([c EXCEPT ![i].signature = CorruptSignature(@)]), "A")
                  = "InvalidBlockSignature"
               /\ ChainValidationKind(WithChain([c EXCEPT ![i].hash = <<"corrupted", @>>]), "A")
                  = "InvalidHash"
               /\ \A j \in 1..Len(c[i].transactions) :
                      ChainValidationKind(
                          WithChain([c EXCEPT ![i].transactions[j].signature =
                                                  CorruptSignature(@)]), "A")
                      = "InvalidTxSignature"

-----------------------------------------------------------------------------
(* SpecRegistry: the validator registry of one node.  Three wallets stake   *)
(* and unstake, the threshold moves, and select_next_validator is called;   *)
(* last records what each selection returned.                               *)

RegistryValidators == {"al", "bo", "gA"}
StakeChanges == {-100, 100}
Thresholds == {-1, 100, 200}

NextRegistry ==
    \/ \E a \in RegistryValidators, c \in StakeChanges :
           /\ AddOrUpdateValidatorStake("A", a, c)
           /\ Returned("add_or_update_validator_stake", "A",
                       manager_add_or_update_validator_stake(World, "A", a, c))
    \/ \E m \in Thresholds :
           /\ SetMinimumStake("A", m)
           /\ Returned("set_minimum_stake", "A", manager_set_minimum_stake(World, "A", m))
    \/ /\ SelectNextValidator("A")
       /\ Selected("A", manager_select_next_validator(World, "A"))

SpecRegistry == Init /\ [][NextRegistry]_vars

\* the validators of node A whose record says active, in reg
ActiveSet(reg) == {a \in Wallets : reg.validators[a].registered /\ reg.validators[a].is_active}

\* the member of S that follows a in cyclic ascending address order
FirstFollowing(a, S) ==
    IF \E b \in S : AddressRank(b) > AddressRank(a)
    THEN CHOOSE b \in S : /\ AddressRank(b) > AddressRank(a)
                          /\ \A c \in S : AddressRank(c) > AddressRank(a)
                                          => AddressRank(b) <= AddressRank(c)
    ELSE CHOOSE b \in S : \A c \in S : AddressRank(b) <= AddressRank(c)

\* C6: with N active validators and no stake or threshold change, the
\* selections made in a row name active validators only, each selection is
\* the one that follows the previous in ascending cyclic address order, any
\* N of them in a row are the N active validators, and selection i + N
\* repeats selection i.
C6_RoundRobinFairness ==
    LET run == last.run
        S == ActiveSet(validator_manager["A"])
        N == Cardinality(S)
    IN  /\ \A i \in 1..Len(run) : run[i] \in S
        /\ \A i \in 1..(Len(run) - 1) : run[i + 1] = FirstFollowing(run[i], S)
        /\ \A i \in 1..Len(run) :
               i + N - 1 <= Len(run) => {run[k] : k \in i..(i + N - 1)} = S
        /\ \A i \in 1..Len(run) : i + N <= Len(run) => run[i + N] = run[i]

\* three active validators, selected twice round
C6_Witness ==
    /\ Cardinality(ActiveSet(validator_manager["A"])) = 3
    /\ Len(last.run) = 6

\* C7: a selection never returns an inactive validator, and when one call
\* deactivates validators right after a selection, the next selection is the
\* first still-active validator that follows the one selected before.
C7_DeactivationKeepsOrder ==
    [][/\ (last'.op = "select_next_validator" /\ last'.ret # "None")
          => last'.ret \in ActiveSet(validator_manager'["A"])
       /\ (/\ last.op = "select_next_validator"
           /\ last.ret # "None"
           /\ ActiveSet(validator_manager'["A"]) # ActiveSet(validator_manager["A"])
           /\ ActiveSet(validator_manager'["A"]) \subseteq ActiveSet(validator_manager["A"])
           /\ ActiveSet(validator_manager'["A"]) # {})
          => select_next_validator(validator_manager'["A"]).selected
             = FirstFollowing(last.ret, ActiveSet(validator_manager'["A"]))]_vars

-----------------------------------------------------------------------------
(* SpecScenario: the end-to-end run of tests/test_blockchain.py on one node. *)
(* Setup, in any order: the keys of "al" and "bo" are published, "v1"       *)
(* stakes, the genesis validator signs a transfer of a to "al" and submits  *)
(* it.  Then block 1 is mined, "al" signs a transfer of b <= a to "bo" and  *)
(* submits it with its own key, and block 2 is mined.                       *)

\* a <= S and b <= a are drawn from these; the code sets no lower bound
Amounts == {-1, 0, 1, 2, 3, initial_supply_epc - 1, initial_supply_epc}

FundAlice(a) == sign(Transaction("gA", "al", a, NATIVE_CURRENCY_SYMBOL, 1), "gA")
AliceToBob(b) == sign(Transaction("al", "bo", b, NATIVE_CURRENCY_SYMBOL, 2), "al")

SetupDone ==
    /\ USER_PUBLIC_KEYS["al"] # NoKey
    /\ USER_PUBLIC_KEYS["bo"] # NoKey
    /\ validator_manager["A"].validators["v1"].registered

NextScenario ==
    \/ \E w \in {"al", "bo"} :
           /\ Len(chain["A"]) = 1 /\ USER_PUBLIC_KEYS[w] = NoKey
           /\ PublishPublicKey(w) /\ Unobserved
    \/ /\ Len(chain["A"]) = 1 /\ ~validator_manager["A"].validators["v1"].registered
       /\ RegisterValidatorWallet("A", "v1", 100) /\ Unobserved
    \/ \E a \in Amounts :
           /\ Len(chain["A"]) = 1 /\ pending_transactions["A"] = <<>>
           /\ AddTransaction("A", FundAlice(a), get_public_key_hex("gA"), {}) /\ Unobserved
    \/ \E b \in Amounts :
           /\ Len(chain["A"]) = 2 /\ pending_transactions["A"] = <<>>
           /\ b <= chain["A"][2].transactions[1].amount
           /\ AddTransaction("A", AliceToBob(b), get_public_key_hex("al"), {}) /\ Unobserved
    \/ /\ SetupDone /\ pending_transactions["A"] # <<>>
       /\ MinePendingTransactions("A", {}) /\ Unobserved

SpecScenario == Init /\ [][NextScenario]_vars

\* C8: every step of the scenario succeeds; after block 1 the balances are
\* V0 = S - a and Alice = a, after block 2 they are V0 = S - a,
\* Alice = a - b and Bob = b, the mempool is empty after each block and
\* is_chain_valid holds after each block.
C8_EndToEndScenario ==
    LET c == chain["A"]
        S == initial_supply_epc
        a == c[2].transactions[1].amount
        b == c[3].transactions[1].amount
        no_up == {}
    IN  /\ (Len(c) = 1 /\ pending_transactions["A"] = <<>>)
           => \A x \in Amounts :
                  add_transaction(World, "A", FundAlice(x), get_public_key_hex("gA"),
                                  FALSE, no_up).ret = "True"
        /\ (SetupDone /\ pending_transactions["A"] # <<>>)
           => mine_pending_transactions(World, "A", no_up).ret = "Block"
        /\ Len(c) = 2
           => /\ c[2].transactions = <<FundAlice(a)>>
              /\ c[2].validator_address = "v1"
              /\ balances["A"] = [w \in Wallets |-> IF w = "gA" THEN S - a
                                                    ELSE IF w = "al" THEN a ELSE 0]
              /\ is_chain_valid(World, "A")
              /\ pending_transactions["A"] = <<>>
                 => \A x \in Amounts :
                        x <= a => add_transaction(World, "A", AliceToBob(x),
                                                  get_public_key_hex("al"), FALSE, no_up).ret
                                  = "True"
        /\ Len(c) = 3
           => /\ c[3].transactions = <<AliceToBob(b)>>
              /\ b <= a
              /\ balances["A"]["gA"] = S - a
              /\ balances["A"]["al"] = a - b
              /\ balances["A"]["bo"] = b
              /\ pending_transactions["A"] = <<>>
              /\ is_chain_valid(World, "A")

\* the run of the test: 2 to Alice, then 1 to Bob, both blocks mined
C8_Witness ==
    /\ Len(chain["A"]) = 3
    /\ balances["A"]["gA"] = initial_supply_epc - 2
    /\ balances["A"]["al"] = 1
    /\ balances["A"]["bo"] = 1
    /\ pending_transactions["A"] = <<>>

-----------------------------------------------------------------------------
(* The balance table against the replay of the chain *)

\* every native-asset transaction of txs applied in order
RECURSIVE ReplayNative(_, _)
ReplayNative(bal, txs) ==
    IF txs = <<>> THEN bal
    ELSE ReplayNative(IF Head(txs).asset_id = NATIVE_CURRENCY_SYMBOL
                      THEN Transfer(bal, Head(txs)) ELSE bal, Tail(txs))

RECURSIVE ReplayBlocks(_, _, _)
ReplayBlocks(bal, c, i) ==
    IF i > Len(c) THEN bal ELSE ReplayBlocks(ReplayNative(bal, c[i].transactions), c, i + 1)

\* the genesis validator of node n's chain holds the total supply, then
\* every block of the chain is replayed in chain order
ReplayedBalances(n) ==
    ReplayBlocks([NoBalances EXCEPT ![chain[n][1].validator_address] = total_supply_epc[n]],
                 chain[n], 1)

\* the state of the process with the balance table of node A replaced by bal
WithBalances(bal) == [World EXCEPT !.balances["A"] = bal]

\* one entry of the live table of node A moved by d
MovedBalances(a, d) == [balances["A"] EXCEPT ![a] = @ + d]

\* C11: whatever the chain length, is_chain_valid is false on every balance
\* table that differs from the replay of the chain (tables are total
\* functions here, so entries of zero and missing entries are the same).
C11_BalanceCorruptionDetected ==
    \A a \in Wallets, d \in {-1, 0, 1} :
        MovedBalances(a, d) # ReplayedBalances("A")
            => ~is_chain_valid(WithBalances(MovedBalances(a, d)), "A")

\* C12: on every node the live balance table is the replay of the node's
\* chain from the genesis allocation.
C12_LiveEqualsReplay == \A n \in Nodes : balances[n] = ReplayedBalances(n)

\* node B holds a block that came in from node A on top of an adopted chain
\* and a block of its own
C12_Witness ==
    /\ chain["B"][1] = GenesisBlock("A")
    /\ Len(chain["B"]) = 3
    /\ balances["B"]["al"] = 1
    /\ balances["B"]["bo"] = 1

-----------------------------------------------------------------------------
(* SpecThreads: node A as its threads run it.  cmd/node/main.py reads       *)
(* commands in the foreground thread (transfer, mine, stake, addpeer) while *)
(* the HTTP server of start_server answers each request in a thread of its  *)
(* own; nothing in the code takes a lock.  A chain pull is followed         *)
(* statement by statement: the guard of request_chain_from_peer, the        *)
(* assignment of the flag, the GET with the checks of                       *)
(* handle_chain_response, the replacement, the reset of the flag.  Every    *)
(* other call runs in one step.  Node B is another process and only serves  *)
(* its chain.                                                               *)

ForegroundTransaction == sign(Transaction("gA", "al", 2, NATIVE_CURRENCY_SYMBOL, 1), "gA")
PeerTransaction == sign(Transaction("gB", "al", 1, NATIVE_CURRENCY_SYMBOL, 1), "gB")

\* thread t moves to r; nothing else is observed
Runs(t, r) ==
    /\ running' = [running EXCEPT ![t] = r]
    /\ UNCHANGED <<last, sent, in_flight, draft>>

\* the ledger of node A as a thread sees it
Ledger(w) ==
    [chain |-> w.chain["A"], pending_transactions |-> w.pending_transactions["A"],
     balances |-> w.balances["A"]]

\* connect_to_peer("B") in thread t up to its call of request_chain_from_peer
BeginConnectToPeer(t) ==
    LET up == {<<"A", "B">>}
        added == add_peer(World, "A", "B", up)
    IN  /\ running[t] = Idle
        /\ added.ret = "True" \/ "B" \in added.w.peers["A"]
        /\ Len(added.w.chain["A"]) = 1 /\ ~added.w.syncing_in_progress["A"]
        /\ Do(added)
        /\ Runs(t, [pc |-> "guard", peer_node |-> "B"])

\* handle_received_block in thread t, for block i of B's chain posted to A,
\* up to its call of request_chain_from_peer
BeginReceivedBlock(t, i) ==
    /\ running[t] = Idle
    /\ received_block_branch(World, "A", block_to_dict(chain["B"][i])) = "behind"
    /\ peers["A"] # {}
    /\ Do([w |-> World])
    /\ Runs(t, [pc |-> "guard", peer_node |-> PeerList(peers["A"])[1]])

\* if self.syncing_in_progress: return
PassGuard(t) ==
    /\ running[t].pc = "guard"
    /\ Do([w |-> World])
    /\ Runs(t, IF syncing_in_progress["A"] THEN Idle ELSE [running[t] EXCEPT !.pc = "set"])

\* self.syncing_in_progress = True
SetSyncing(t) ==
    /\ running[t].pc = "set"
    /\ Do([w |-> [World EXCEPT !.syncing_in_progress["A"] = TRUE]])
    /\ Runs(t, [running[t] EXCEPT !.pc = "get"])

\* the GET and handle_chain_response up to its decision
CheckResponse(t) ==
    LET v == validate_chain_response(World, "A", get_chain_endpoint(World, running[t].peer_node))
    IN  /\ running[t].pc = "get"
        /\ Do(v)
        /\ Runs(t, IF v.adopt
                   THEN [pc |-> "replace", prospective_chain |-> v.prospective_chain,
                         balances |-> v.balances, checked |-> Ledger(World)]
                   ELSE [pc |-> "clear"])

\* the assignments that replace the chain
ReplaceChain(t) ==
    /\ running[t].pc = "replace"
    /\ Do([w |-> adopt_chain(World, "A", running[t].prospective_chain, running[t].balances)])
    /\ Runs(t, [pc |-> "clear"])

\* self.syncing_in_progress = False
ClearSyncing(t) ==
    /\ running[t].pc = "clear"
    /\ Do([w |-> [World EXCEPT !.syncing_in_progress["A"] = FALSE]])
    /\ Runs(t, Idle)

NextThreads ==
    \/ /\ running["fg"] = Idle
       /\ AddTransaction("A", ForegroundTransaction, get_public_key_hex("gA"), {}) /\ Unobserved
    \/ running["fg"] = Idle /\ MinePendingTransactions("A", {}) /\ Unobserved
    \/ running["fg"] = Idle /\ RegisterValidatorWallet("A", "v1", 100) /\ Unobserved
    \/ AddTransaction("B", PeerTransaction, get_public_key_hex("gB"), {}) /\ Unobserved
    \/ MinePendingTransactions("B", {}) /\ Unobserved
    \/ RegisterValidatorWallet("B", "v1", 100) /\ Unobserved
    \/ BeginConnectToPeer("fg")
    \/ \E i \in 1..MaxChain : i <= Len(chain["B"]) /\ BeginReceivedBlock("h1", i)
    \/ \E t \in Threads : PassGuard(t)
    \/ \E t \in Threads : SetSyncing(t)
    \/ \E t \in Threads : CheckResponse(t)
    \/ \E t \in Threads : ReplaceChain(t)
    \/ \E t \in Threads : ClearSyncing(t)

SpecThreads == Init /\ [][NextThreads]_vars

\* C13: while a thread is between the checks of a chain replacement and the
\* replacement itself, no other thread is there too and the ledger of the
\* node (chain, mempool, balances) is the one the checks saw: no
\* add_transaction, no mined block and no other replacement came between.
C13_MutualExclusion ==
    \A t \in Threads :
        running[t].pc = "replace"
            => /\ running[t].checked = Ledger(World)
               /\ \A u \in Threads \ {t} : running[u].pc # "replace"

\* C14: at most one thread of the node is past the guard of
\* request_chain_from_peer.
C14_SinglePull ==
    Cardinality({t \in Threads : running[t].pc \in {"set", "get", "replace", "clear"}}) <= 1

-----------------------------------------------------------------------------
(* SpecSync: node B is handed chain responses, as the tests of             *)
(* tests/network/test_network.py hand them to handle_chain_response: the    *)
(* chain node A serves, or that chain with one block changed by a peer that *)
(* holds the wallets of the process.  Both nodes build chains of their own. *)

\* block i of c made again by its validator on top of another block
Relinked(c, i) ==
    [c EXCEPT ![i] = block_to_dict(sign_block(
                         Block(c[i].index, c[i].transactions, c[i].timestamp, <<"elsewhere">>,
                               c[i].validator_address),
                         c[i].validator_address))]

\* block i of c made again by its validator around one transfer, signed by
\* the genesis validator of c, of more than the whole supply
Overdrawn(c, i) ==
    LET g == c[1].validator_address
        tx == sign(Transaction(g, "al", initial_supply_epc + 1, NATIVE_CURRENCY_SYMBOL, 1), g)
    IN  [c EXCEPT ![i] = block_to_dict(sign_block(
                             Block(c[i].index, <<tx>>, c[i].timestamp, c[i].previous_hash,
                                   c[i].validator_address),
                             c[i].validator_address))]

\* the responses node A's chain c can arrive as
Responses(c) ==
    {c}
    \cup {[c EXCEPT ![i].hash = <<"corrupted", @>>] : i \in 1..Len(c)}
    \cup {[c EXCEPT ![i].signature = CorruptSignature(@)] : i \in 1..Len(c)}
    \cup {[c EXCEPT ![i].timestamp = @ + 5] : i \in 1..Len(c)}
    \cup {[c EXCEPT ![i] = [index |-> i - 1]] : i \in 1..Len(c)}
    \cup UNION {{[c EXCEPT ![i].transactions[j].signature = CorruptSignature(@)] :
                    j \in 1..Len(c[i].transactions)} : i \in 1..Len(c)}
    \cup {Relinked(c, i) : i \in 2..Len(c)}
    \cup {Overdrawn(c, i) : i \in 2..Len(c)}

NextSync ==
    \/ AddTransaction("A", ForegroundTransaction, get_public_key_hex("gA"), {}) /\ Unobserved
    \/ AddTransaction("B", PeerTransaction, get_public_key_hex("gB"), {}) /\ Unobserved
    \/ \E n \in Nodes : RegisterValidatorWallet(n, "v1", 100) /\ Unobserved
    \/ \E n \in Nodes : MinePendingTransactions(n, {}) /\ Unobserved
    \/ \E received_chain_dicts \in Responses(get_chain_endpoint(World, "A")) :
           HandleChainResponse("B", received_chain_dicts) /\ Unobserved

SpecSync == Init /\ [][NextSync]_vars

\* every native-asset debit of blocks i.. of c is covered when it is replayed
RECURSIVE DebitsCovered(_, _, _)
DebitsCovered(bal, c, i) ==
    IF i > Len(c) THEN TRUE
    ELSE /\ \A j \in 1..Len(c[i].transactions) :
                LET tx == c[i].transactions[j]
                IN  tx.asset_id = NATIVE_CURRENCY_SYMBOL
                        => ReplayNative(bal, SubSeq(c[i].transactions, 1, j - 1))[tx.sender_address]
                           >= tx.amount
         /\ DebitsCovered(ReplayNative(bal, c[i].transactions), c, i + 1)

\* the conditions under which node n may adopt the blocks c
AdoptionConditions(n, c) ==
    /\ Len(c) > Len(chain[n])
    /\ Len(chain[n]) > 1 => c[1].hash = chain[n][1].hash
    /\ \A i \in 1..Len(c) :
           /\ c[i].hash = calculate_block_hash(c[i])
           /\ i > 1 => c[i].previous_hash = c[i - 1].hash
           /\ verify_block_signature(c[i], USER_PUBLIC_KEYS[c[i].validator_address])
           /\ \A j \in 1..Len(c[i].transactions) :
                  tx_verify_signature(c[i].transactions[j],
                                      USER_PUBLIC_KEYS[c[i].transactions[j].sender_address])
    /\ DebitsCovered([NoBalances EXCEPT ![c[1].validator_address] = total_supply_epc[n]], c, 1)

\* C15: a call of handle_chain_response replaces the chain of the node only
\* if the received chain deserializes, is strictly longer, has the local
\* genesis hash when the local chain has more than one block, and every
\* block of it, the genesis included, has its recomputed hash, its link, a
\* valid block signature, valid transaction signatures and covered debits.
C15_AdoptionConditions ==
    [][\A received_chain_dicts \in Responses(get_chain_endpoint(World, "A")) :
           (HandleChainResponse("B", received_chain_dicts) /\ chain'["B"] # chain["B"])
               => /\ \A i \in 1..Len(received_chain_dicts) :
                         deserializable(received_chain_dicts[i])
                  /\ AdoptionConditions("B",
                         [i \in 1..Len(received_chain_dicts) |->
                             block_from_dict(received_chain_dicts[i])])]_vars

\* C16: a call of handle_chain_response that rejects the received chain
\* leaves the chain, the balances, the mempool and both seen sets of the
\* node as they were.
C16_RejectionChangesNothing ==
    [][\A received_chain_dicts \in Responses(get_chain_endpoint(World, "A")) :
           (/\ HandleChainResponse("B", received_chain_dicts)
            /\ ~validate_chain_response(World, "B", received_chain_dicts).adopt)
               => UNCHANGED <<chain, balances, pending_transactions,
                              seen_tx_ids_broadcast, seen_block_hashes_broadcast>>]_vars

\* node B went through the validation of a response (the wallet of the
\* temporary Blockchain is registered), has adopted nothing and still holds
\* its block and its pending transaction
C16_Witness ==
    /\ USER_PUBLIC_KEYS[TempWallet] # NoKey
    /\ chain["B"][1] = GenesisBlock("B")
    /\ Len(chain["B"]) = 2
    /\ pending_transactions["B"] # <<>>

-----------------------------------------------------------------------------
(* SpecGossip: the two nodes as separate processes.  A POST a node makes   *)
(* travels: it is in flight until the handler of the peer runs on it, or   *)
(* until the request fails (connection error or timeout, network.py 88-97). *)
(* The foreground loop of node A submits transactions, stakes and mines;   *)
(* either node connects to the other and pulls its chain, a GET that is    *)
(* answered at once.  Node B only relays.                                  *)

\* most POST requests one node makes over a run
MaxSent == 8

\* what the clients of SpecGossip submit
GossipTransactions ==
    {ForegroundTransaction,
     sign(Transaction("gA", "bo", 1, NATIVE_CURRENCY_SYMBOL, 1), "gA")}

\* the requests of node n that w records beyond those of the current state
Posted(w, n) ==
    {[from |-> n, seq |-> i, to |-> w.sent[n][i].to, kind |-> w.sent[n][i].kind,
      data |-> w.sent[n][i].data] :
        i \in {j \in Len(sent[n]) + 1..Len(w.sent[n]) : w.sent[n][j].kind # "REPLACED"}}

\* the observer of SpecGossip: the requests made by the call travel, those
\* in consumed have arrived; the record of a node keeps its first MaxSent
\* requests
Gossips(res, consumed) ==
    /\ sent' = [n \in Nodes |->
                   IF Len(res.w.sent[n]) <= MaxSent THEN res.w.sent[n]
                   ELSE SubSeq(res.w.sent[n], 1, MaxSent)]
    /\ in_flight' = (in_flight \ consumed) \cup UNION {Posted(res.w, n) : n \in Nodes}
    /\ UNCHANGED <<last, running, draft>>

\* the handler of the peer runs on a request in flight
Deliver(msg) ==
    \E res \in {IF msg.kind = "NEW_TRANSACTION"
                THEN handle_received_transaction(World, msg.to, msg.data, {})
                ELSE handle_received_block(World, msg.to, msg.data, {})} :
        Do(res) /\ Gossips(res, {msg})

\* the request fails
Lose(msg) ==
    /\ in_flight' = in_flight \ {msg}
    /\ UNCHANGED <<chain, pending_transactions, balances, total_supply_epc, network_interface,
                   validator_manager, USER_PUBLIC_KEYS, VALIDATOR_WALLETS, peers,
                   seen_tx_ids_broadcast, seen_block_hashes_broadcast, syncing_in_progress,
                   clock, last, running, sent, draft>>

Originate ==
    \/ \E tx \in GossipTransactions :
           LET res == add_transaction(World, "A", tx, get_public_key_hex(tx.sender_address),
                                      FALSE, {})
           IN  Do(res) /\ Gossips(res, {})
    \/ LET res == mine_pending_transactions(World, "A", {})
       IN  Do(res) /\ Gossips(res, {})
    \/ RegisterValidatorWallet("A", "v1", 100) /\ Unobserved
    \/ \E n \in Nodes, m \in Nodes :
           LET res == connect_to_peer(World, n, m, Links)
           IN  n # m /\ Do(res) /\ Gossips(res, {})
    \/ \E n \in Nodes : \E m \in peers[n] :
           LET res == [w |-> request_chain_from_peer(World, n, m, Links), ret |-> "None"]
           IN  Do(res) /\ Gossips(res, {})

Delivery == \E msg \in in_flight : Deliver(msg)

Loss == \E msg \in in_flight : Lose(msg)

NextGossip == Originate \/ Delivery \/ Loss

SpecGossip == Init /\ [][NextGossip]_vars

\* a request in flight arrives or fails: requests.post returns within its
\* timeout (network.py 88-97), and a handler runs to its end
SpecGossipFair == SpecGossip /\ WF_vars(Loss \/ Delivery)

\* C17: between two replacements of its chain a node sends a transaction or
\* a block to a peer at most once; a broadcast of an item in the seen set
\* sends nothing, and a broadcast of any other item puts it in the seen set
\* and sends it once to every known peer.
C17_BroadcastDeduplicated ==
    /\ \A n \in Nodes :
           \A i, j \in 1..Len(sent[n]) :
               (/\ i < j
                /\ sent[n][i].kind # "REPLACED"
                /\ sent[n][i].kind = sent[n][j].kind
                /\ sent[n][i].item = sent[n][j].item
                /\ sent[n][i].to = sent[n][j].to)
                   => \E k \in i + 1..j - 1 : sent[n][k].kind = "REPLACED"
    /\ \A n \in Nodes, tx \in GossipTransactions :
           LET w == broadcast_transaction(World, n, tx, {})
           IN  IF tx.transaction_id \in seen_tx_ids_broadcast[n]
               THEN w = World
               ELSE /\ w.seen_tx_ids_broadcast[n]
                           = seen_tx_ids_broadcast[n] \cup {tx.transaction_id}
                    /\ Len(w.sent[n]) = Len(sent[n]) + Cardinality(peers[n])
                    /\ \A p \in peers[n] :
                           Cardinality({i \in Len(sent[n]) + 1..Len(w.sent[n]) :
                                           /\ w.sent[n][i].to = p
                                           /\ w.sent[n][i].kind = "NEW_TRANSACTION"
                                           /\ w.sent[n][i].item = tx.transaction_id}) = 1
    /\ \A n \in Nodes, i \in 1..Len(chain["A"]) :
           LET block == chain["A"][i]
               w == broadcast_block(World, n, block, {})
           IN  IF block.hash \in seen_block_hashes_broadcast[n]
               THEN w = World
               ELSE /\ w.seen_block_hashes_broadcast[n]
                           = seen_block_hashes_broadcast[n] \cup {block.hash}
                    /\ Len(w.sent[n]) = Len(sent[n]) + Cardinality(peers[n])
                    /\ \A p \in peers[n] :
                           Cardinality({i2 \in Len(sent[n]) + 1..Len(w.sent[n]) :
                                           /\ w.sent[n][i2].to = p
                                           /\ w.sent[n][i2].kind = "NEW_BLOCK"
                                           /\ w.sent[n][i2].item = block.hash}) = 1

\* node A sent a transaction to node B, node B relayed it to node A, both
\* hold it in their seen sets and nothing travels any more
C17_Witness ==
    /\ in_flight = {}
    /\ \E tx \in GossipTransactions :
           /\ \A n \in Nodes : tx.transaction_id \in seen_tx_ids_broadcast[n]
           /\ \A n \in Nodes :
                  Cardinality({i \in 1..Len(sent[n]) :
                                  /\ sent[n][i].kind = "NEW_TRANSACTION"
                                  /\ sent[n][i].item = tx.transaction_id}) = 1

\* the items node A has produced: the transactions submitted and its blocks
GossipItems ==
    {[kind |-> "NEW_TRANSACTION", item |-> tx.transaction_id] : tx \in GossipTransactions}
    \cup {[kind |-> "NEW_BLOCK", item |-> chain["A"][i].hash] : i \in 1..Len(chain["A"])}

\* the requests recorded for the item it
SentFor(it) ==
    {<<n, i>> \in Nodes \X (1..MaxSent) :
        /\ i <= Len(sent[n])
        /\ sent[n][i].kind = it.kind
        /\ sent[n][i].item = it.item}

\* C18: gossip terminates: the messages sent for a transaction or a block
\* are finitely many (here at most one on every link), the record of no
\* node fills up, and from some point on no message is in flight.
C18_GossipTerminates ==
    /\ [](\A it \in GossipItems : Cardinality(SentFor(it)) <= Cardinality(Links))
    /\ [](\A n \in Nodes : Len(sent[n]) < MaxSent)
    /\ <>[](in_flight = {})

\* node A sent a block to node B, node B appended it and relayed it to node
\* A, and nothing travels any more
C18_Witness ==
    /\ in_flight = {}
    /\ Len(chain["B"]) = 3
    /\ \E i \in 1..Len(sent["B"]) :
           /\ sent["B"][i].kind = "NEW_BLOCK"
           /\ sent["B"][i].item = chain["A"][3].hash
           /\ \E j \in 1..Len(sent["A"]) :
                  sent["A"][j].kind = "NEW_BLOCK" /\ sent["A"][j].item = sent["B"][i].item

-----------------------------------------------------------------------------
(* SpecTransaction: one Transaction object in the hands of a client, as in *)
(* tests/test_transaction.py: it is constructed, signed with a wallet, and *)
(* its attributes are assigned.  Beside the object, draft remembers the    *)
(* identifier the constructor computed and, of the last sign call, the     *)
(* wallet and the values the signed fields had.                            *)

\* the fields get_data_for_signing serializes
SignedFieldNames ==
    {"sender_address", "receiver_address", "amount", "asset_id", "timestamp", "fee",
     "metadata"}

SignedFields(tx) == [f \in SignedFieldNames |-> tx[f]]

\* the wallets of the client and of another user
DraftWallets == {"al", "bo"}

\* the values a field is given, at construction or by assignment
FieldValues ==
    [sender_address |-> {"al", "bo"},
     receiver_address |-> {"bo", "bo1"},
     amount |-> {2, 12},
     asset_id |-> {NATIVE_CURRENCY_SYMBOL, "EPC1"},
     timestamp |-> {2, 12},
     fee |-> {0, 1},
     metadata |-> {NoMetadata, [k \in {"memo"} |-> "rent"]}]

\* tx = Transaction(sender_address=alice_wallet.address, ...)
Construct(a, ts) ==
    /\ draft.pc = "none"
    /\ LET tx == TransactionWith("al", "bo", a, NATIVE_CURRENCY_SYMBOL, ts, 0, NoMetadata)
       IN  draft' = [pc |-> "built", tx |-> tx, constructed_id |-> tx.transaction_id,
                     signer |-> "none", signed |-> SignedFields(tx)]

\* tx.sign(wallet)
SignDraft(w) ==
    /\ draft.pc = "built"
    /\ draft' = [draft EXCEPT !.tx = sign(@, w), !.signer = w,
                              !.signed = SignedFields(draft.tx)]

\* tx.<field> = value
SetField(f, v) ==
    /\ draft.pc = "built"
    /\ draft' = [draft EXCEPT !.tx[f] = v]

LedgerUntouched ==
    UNCHANGED <<chain, pending_transactions, balances, total_supply_epc, network_interface,
                validator_manager, USER_PUBLIC_KEYS, VALIDATOR_WALLETS, peers,
                seen_tx_ids_broadcast, seen_block_hashes_broadcast, syncing_in_progress,
                clock, last, running, sent, in_flight>>

NextTransaction ==
    \/ \E a \in FieldValues.amount, ts \in FieldValues.timestamp :
           Construct(a, ts) /\ LedgerUntouched
    \/ \E w \in DraftWallets : SignDraft(w) /\ LedgerUntouched
    \/ \E f \in SignedFieldNames : \E v \in FieldValues[f] : SetField(f, v) /\ LedgerUntouched

SpecTransaction == Init /\ [][NextTransaction]_vars

\* C19: the signature of a transaction follows the current values of its
\* fields: verify_signature is true exactly with the key of the wallet that
\* signed and while every signed field has the value it had at signing, so
\* an assignment to a signed field makes it false and putting the value back
\* makes it true again; the identifier computed at construction stays.
C19_SignatureTracksFields ==
    draft.pc = "built"
        => /\ draft.tx.transaction_id = draft.constructed_id
           /\ \A w \in DraftWallets :
                  tx_verify_signature(draft.tx, get_public_key_hex(w))
                      <=> /\ draft.signer = w
                          /\ SignedFields(draft.tx) = draft.signed

\* C20: Transaction.sign refuses a wallet whose address is not the sender
\* address of the transaction: the call fails and the signature stays.
C20_SignRefusesForeignWallet ==
    [][\A w \in DraftWallets :
           (SignDraft(w) /\ w # draft.tx.sender_address)
               => draft'.tx.signature = draft.tx.signature]_vars

-----------------------------------------------------------------------------
(* Claims on the validator registry, checked under SpecRegistry *)

\* the stake update asked of the registry reg is one the code must refuse
RefusedStakeUpdate(reg, a, stake_change) ==
    \/ ~reg.validators[a].registered /\ stake_change < 0
    \/ reg.validators[a].registered /\ reg.validators[a].stake + stake_change < 0

\* C21: add_or_update_validator_stake returns None and leaves the registry,
\* the stakes, the active flags, the rotation list and the cursor as they
\* were when the address is new and the change negative, or when the stake
\* of a known address would go below zero; no stake is ever negative.
C21_RejectedStakeUpdate ==
    /\ [](\A a \in Wallets : validator_manager["A"].validators[a].stake >= 0)
    /\ [][\A a \in RegistryValidators, c \in StakeChanges :
              (/\ AddOrUpdateValidatorStake("A", a, c)
               /\ Returned("add_or_update_validator_stake", "A",
                           manager_add_or_update_validator_stake(World, "A", a, c))
               /\ RefusedStakeUpdate(validator_manager["A"], a, c))
                  => /\ last'.ret = "None"
                     /\ validator_manager' = validator_manager]_vars

\* a reduction of a known validator's stake below zero was just refused,
\* while another address is still unknown
C21_Witness ==
    /\ last.op = "add_or_update_validator_stake"
    /\ last.ret = "None"
    /\ \E a \in RegistryValidators :
           /\ validator_manager["A"].validators[a].registered
           /\ validator_manager["A"].validators[a].stake = 0
    /\ \E a \in RegistryValidators : ~validator_manager["A"].validators[a].registered

\* C22: every validator's active flag says whether its stake reaches the
\* minimum stake, the rotation list is the sorted list of the addresses of
\* the active validators, and a record, once made, stays in the registry
\* whatever its stake.
C22_RegistryConsistent ==
    /\ [](LET reg == validator_manager["A"]
          IN  /\ \A a \in Wallets :
                     reg.validators[a].registered
                         => (reg.validators[a].is_active
                                <=> reg.validators[a].stake >= reg.min_stake_active)
              /\ reg.active_validator_addresses_round_robin
                     = SortAddresses({a \in Wallets : /\ reg.validators[a].registered
                                                      /\ reg.validators[a].is_active}))
    /\ [][\A a \in Wallets :
              validator_manager["A"].validators[a].registered
                  => validator_manager'["A"].validators[a].registered]_vars

\* two validators are in rotation and a third, whose stake fell below the
\* threshold, is in the registry but not in the list
C22_Witness ==
    LET reg == validator_manager["A"]
    IN  /\ Len(reg.active_validator_addresses_round_robin) = 2
        /\ \E a \in RegistryValidators :
               /\ reg.validators[a].registered
               /\ reg.validators[a].stake < reg.min_stake_active
               /\ \A i \in 1..2 : reg.active_validator_addresses_round_robin[i] # a

-----------------------------------------------------------------------------
(* Signature verification on well-formed and malformed inputs *)

VerifyKeys == {get_public_key_hex("al"), get_public_key_hex("bo"), NoKey, NotHexKey, NotAPointKey}

VerifyDigests == {sha256("Original data"), sha256("Tampered data"), NotBytes}

VerifySignatures ==
    {sign_data("al", sha256("Original data")), sign_data("bo", sha256("Original data")),
     CorruptSignature(sign_data("al", sha256("Original data"))),
     NoSignature, NotHexSignature, NotStrSignature}

\* a signed transfer, the same with a field changed after signing, and the
\* same with each kind of bad signature
VerifyTransactions ==
    LET tx == sign(Transaction("al", "bo", 5, NATIVE_CURRENCY_SYMBOL, 1), "al")
    IN  {tx, [tx EXCEPT !.amount = 6], [tx EXCEPT !.signature = CorruptSignature(@)]}
        \cup {[tx EXCEPT !.signature = sg] : sg \in {NoSignature, NotHexSignature, NotStrSignature}}

\* a signed block, the same with its stored hash replaced or missing, and
\* the same with each kind of bad signature
VerifyBlocks ==
    LET b == sign_block(Block(1, <<>>, 1, GenesisBlock("A").hash, "al"), "al")
    IN  {b, [b EXCEPT !.hash = GenesisBlock("A").hash], [b EXCEPT !.hash = <<>>],
         [b EXCEPT !.signature = CorruptSignature(@)]}
        \cup {[b EXCEPT !.signature = sg] : sg \in {NoSignature, NotHexSignature, NotStrSignature}}

Verified(fn, pk, digest, sig, ret) ==
    draft' = [pc |-> "verified", fn |-> fn, key |-> pk, digest |-> digest,
              signature |-> sig, ret |-> ret]

WalletVerify(pk, digest, sig) ==
    Verified("Wallet.verify_signature", pk, digest, sig, Wallet_verify_signature(pk, digest, sig))

TransactionVerify(tx, pk) ==
    Verified("Transaction.verify_signature", pk, sha256(get_data_for_signing(tx)),
             tx.signature, Transaction_verify_signature(tx, pk))

BlockVerify(b, pk) ==
    Verified("Block.verify_block_signature", pk, b.hash, b.signature,
             Block_verify_block_signature(b, pk))

NextVerify ==
    \/ \E pk \in VerifyKeys, d \in VerifyDigests, sg \in VerifySignatures :
           WalletVerify(pk, d, sg) /\ LedgerUntouched
    \/ \E tx \in VerifyTransactions, pk \in VerifyKeys : TransactionVerify(tx, pk) /\ LedgerUntouched
    \/ \E b \in VerifyBlocks, pk \in VerifyKeys : BlockVerify(b, pk) /\ LedgerUntouched

SpecVerify == Init /\ [][NextVerify]_vars

\* the key, the signature and the hash fit: the signature is an intact
\* signature over this very hash by the wallet whose key is given
WellFormedVerification ==
    /\ draft.signature.intact
    /\ draft.key = get_public_key_hex(draft.signature.signer)
    /\ draft.signature.digest = draft.digest

\* C23: each of the three verification functions ends in True or False and
\* never in an exception, and ends in False whenever the key is malformed or
\* missing, the signature is malformed or missing, or the hash is not the
\* one that was signed.
C23_VerificationTotal ==
    draft.pc = "verified"
        => /\ draft.ret \in {"True", "False"}
           /\ ~WellFormedVerification => draft.ret = "False"

\* a key that is not hexadecimal was given together with a good signature
\* and hash, and the answer was False
C23_Witness ==
    /\ draft.pc = "verified"
    /\ draft.key = NotHexKey
    /\ draft.signature.intact
    /\ draft.signature.digest = draft.digest
    /\ draft.ret = "False"

-----------------------------------------------------------------------------
(* SpecMining: one node, no peers.  Clients submit transfers of the native *)
(* currency (one of a negative amount, which the code admits), and a       *)
(* transfer of another asset; "v1" stakes; the node mines.  Each call is   *)
(* one step and its result is recorded in last.                            *)

OTHER_COIN == "OTHER_COIN"

MiningTransactions ==
    {sign(Transaction("gA", "al", 2, NATIVE_CURRENCY_SYMBOL, 1), "gA"),
     sign(Transaction("al", "bo", 2, NATIVE_CURRENCY_SYMBOL, 2), "al"),
     sign(Transaction("gA", "al", -2, NATIVE_CURRENCY_SYMBOL, 3), "gA"),
     sign(Transaction("al", "bo", 5, OTHER_COIN, 2), "al")}

NextMining ==
    \/ \E tx \in MiningTransactions :
           /\ AddTransaction("A", tx, get_public_key_hex(tx.sender_address), {})
           /\ Returned("add_transaction", "A",
                       add_transaction(World, "A", tx, get_public_key_hex(tx.sender_address),
                                       FALSE, {}))
    \/ /\ MinePendingTransactions("A", {})
       /\ Returned("mine_pending_transactions", "A", mine_pending_transactions(World, "A", {}))
    \/ /\ RegisterValidatorWallet("A", "v1", 100)
       /\ Returned("register_validator_wallet", "A",
                   register_validator_wallet(World, "A", "v1", 100))

SpecMining == Init /\ [][NextMining]_vars

\* the balances of the simulation after the first k of txs had their turn
RECURSIVE Simulated(_, _, _)
Simulated(bal, txs, k) ==
    IF k = 0 THEN bal
    ELSE LET b == Simulated(bal, txs, k - 1)
         IN  IF /\ txs[k].asset_id = NATIVE_CURRENCY_SYMBOL
                /\ b[txs[k].sender_address] >= txs[k].amount
             THEN Transfer(b, txs[k]) ELSE b

\* txs[i] is not native, or its debit is covered at its turn
Survives(bal, txs, i) ==
    \/ txs[i].asset_id # NATIVE_CURRENCY_SYMBOL
    \/ Simulated(bal, txs, i - 1)[txs[i].sender_address] >= txs[i].amount

\* the elements of txs from position i on whose survival is keep, in order
RECURSIVE Partition(_, _, _, _)
Partition(bal, txs, i, keep) ==
    IF i > Len(txs) THEN <<>>
    ELSE (IF Survives(bal, txs, i) = keep THEN <<txs[i]>> ELSE <<>>)
         \o Partition(bal, txs, i + 1, keep)

\* C24: a mining attempt with no active validator, with an empty mempool or
\* with no pending transaction that survives the simulation returns no
\* block, and every attempt that returns no block leaves the chain, the
\* balances and the mempool as they were.
C24_FailedMiningChangesNothing ==
    LET res == mine_pending_transactions(World, "A", {})
        txs == pending_transactions["A"]
    IN  /\ (\/ get_active_validators(validator_manager["A"]) = {}
            \/ txs = <<>>
            \/ \A i \in 1..Len(txs) : ~Survives(balances["A"], txs, i))
               => res.ret = "None"
        /\ res.ret = "None"
               => /\ res.w.chain = chain
                  /\ res.w.balances = balances
                  /\ res.w.pending_transactions = pending_transactions

\* a validator is active, a transfer is pending, and the attempt just made
\* returned no block because the sender cannot cover it
C24_Witness ==
    /\ last.op = "mine_pending_transactions"
    /\ last.ret = "None"
    /\ get_active_validators(validator_manager["A"]) # {}
    /\ pending_transactions["A"] # <<>>

\* C25: a successful mine_pending_transactions puts into the new block, in
\* mempool order, exactly the pending transactions that survive the
\* simulation, and leaves in the mempool exactly the others, in their order.
C25_MiningPartitionsMempool ==
    LET res == mine_pending_transactions(World, "A", {})
        txs == pending_transactions["A"]
        c == res.w.chain["A"]
    IN  res.ret = "Block"
            => /\ Len(c) = Len(chain["A"]) + 1
               /\ c[Len(c)].transactions = Partition(balances["A"], txs, 1, TRUE)
               /\ res.w.pending_transactions["A"] = Partition(balances["A"], txs, 1, FALSE)
               /\ \A i \in 1..Len(res.w.pending_transactions["A"]) :
                      res.w.pending_transactions["A"][i].transaction_id
                          \notin TransactionIds(c[Len(c)].transactions)

\* a block was just mined that took one pending transfer and left the other,
\* which the sender could cover before the simulation but not at its turn
C25_Witness ==
    /\ last.op = "mine_pending_transactions"
    /\ last.ret = "Block"
    /\ Len(pending_transactions["A"]) = 1
    /\ pending_transactions["A"][1].asset_id = NATIVE_CURRENCY_SYMBOL
    /\ pending_transactions["A"][1].amount > 0

\* C26: in every state, each transaction that passes the simulation of
\* mine_pending_transactions is applied successfully to the balances: the
\* apply loop never fails.
C26_SimulationImpliesApplication ==
    LET txs == valid_txs_for_block(balances["A"], pending_transactions["A"])
    IN  /\ ApplyBlockTransactions(balances["A"], txs).ok
        /\ ApplyBlockTransactions(balances["A"], txs).balances
               = Simulated(balances["A"], pending_transactions["A"],
                           Len(pending_transactions["A"]))

\* a block of two native transfers was just mined, the first of which pays
\* for the second
C26_Witness ==
    /\ last.op = "mine_pending_transactions"
    /\ last.ret = "Block"
    /\ LET b == chain["A"][Len(chain["A"])]
       IN  /\ Len(b.transactions) = 2
           /\ \A i \in 1..2 : b.transactions[i].asset_id = NATIVE_CURRENCY_SYMBOL
           /\ b.transactions[1].receiver_address = b.transactions[2].sender_address

-----------------------------------------------------------------------------
(* SpecInbound: node B as the requests of its peer reach it.  Node A takes *)
(* transfers of the native currency and of another asset, stakes "v1" and  *)
(* mines; node B connects to A (pulling A's chain when it holds its own    *)
(* genesis block alone) and its handlers run on what a peer may post: the  *)
(* blocks of A, blocks that a validator signed around an overdrawn         *)
(* transfer, at another time or on another parent, blocks with a damaged   *)
(* signature, and transactions as submitted, with another identifier, with *)
(* a changed amount or with a damaged signature.  Each handler run is one  *)
(* step; its result is recorded in last and its POSTs in sent.             *)

InboundTransactions ==
    {sign(Transaction("gA", "al", 2, NATIVE_CURRENCY_SYMBOL, 1), "gA"),
     sign(Transaction("al", "bo", 5, OTHER_COIN, 2), "al")}

\* block i of c made again by its validator one tick later
Competing(c, i) ==
    block_to_dict(sign_block(Block(c[i].index, c[i].transactions, c[i].timestamp + 1,
                                   c[i].previous_hash, c[i].validator_address),
                             c[i].validator_address))

\* the blocks that can be posted to a node when its peer holds the chain c
InboundBlocks(c) ==
    {c[i] : i \in 1..Len(c)}
    \cup {Overdrawn(c, i)[i] : i \in 2..Len(c)}
    \cup {Relinked(c, i)[i] : i \in 2..Len(c)}
    \cup {Competing(c, i) : i \in 2..Len(c)}
    \cup {[c[i] EXCEPT !.signature = CorruptSignature(@)] : i \in 2..Len(c)}

\* the transactions that can be posted to a node
InboundTransactionDicts ==
    UNION {{tx_to_dict(tx),
            [tx_to_dict(tx) EXCEPT !.transaction_id = <<"claimed">>],
            [tx_to_dict(tx) EXCEPT !.amount = @ + 1],
            [tx_to_dict(tx) EXCEPT !.signature = CorruptSignature(@)]} :
           tx \in InboundTransactions}

\* the observer of SpecInbound: the result of the handler and the POSTs it
\* made; the record of a node keeps its first MaxSent requests
Handled(op, n, res) ==
    /\ last' = [op |-> op, node |-> n, ret |-> res.ret, run |-> <<>>, previous |-> last.previous]
    /\ sent' = [m \in Nodes |->
                   IF Len(res.w.sent[m]) <= MaxSent THEN res.w.sent[m]
                   ELSE SubSeq(res.w.sent[m], 1, MaxSent)]
    /\ UNCHANGED <<running, in_flight, draft>>

NextInbound ==
    \/ \E tx \in InboundTransactions :
           AddTransaction("A", tx, get_public_key_hex(tx.sender_address), {}) /\ Unobserved
    \/ RegisterValidatorWallet("A", "v1", 100) /\ Unobserved
    \/ MinePendingTransactions("A", {}) /\ Unobserved
    \/ PublishPublicKey("al") /\ Unobserved
    \/ ConnectToPeer("B", "A", Links) /\ Unobserved
    \/ \E block_data \in InboundBlocks(get_chain_endpoint(World, "A")), up \in {{}, Links} :
           \E res \in {handle_received_block(World, "B", block_data, up)} :
               Do(res) /\ Handled("handle_received_block", "B", res)
    \/ \E tx_data \in InboundTransactionDicts :
           \E res \in {handle_received_transaction(World, "B", tx_data, Links)} :
               Do(res) /\ Handled("handle_received_transaction", "B", res)

SpecInbound == Init /\ [][NextInbound]_vars

\* the transactions of another asset that clients submit
OtherAssetTransactions == {tx \in InboundTransactions : tx.asset_id # NATIVE_CURRENCY_SYMBOL}

\* the last request node n made
LastSent(n) == sent[n][Len(sent[n])]

\* the requests that the state w records for node n beyond those of the
\* current state
NewlySent(w, n) == SubSeq(w.sent[n], Len(sent[n]) + 1, Len(w.sent[n]))

\* the received block passes the checks made before the handler looks at its
\* position: it is not on the chain of n, the key of its validator is
\* registered, its hash is that of its fields, and its signature and those
\* of its transactions verify
InboundVerified(n, b) ==
    /\ \A i \in 1..Len(chain[n]) : chain[n][i].hash # b.hash
    /\ USER_PUBLIC_KEYS[b.validator_address] # NoKey
    /\ b.hash = calculate_block_hash(b)
    /\ verify_block_signature(b, USER_PUBLIC_KEYS[b.validator_address])
    /\ \A j \in 1..Len(b.transactions) :
           /\ USER_PUBLIC_KEYS[b.transactions[j].sender_address] # NoKey
           /\ tx_verify_signature(b.transactions[j],
                                  USER_PUBLIC_KEYS[b.transactions[j].sender_address])

ExtendsTip(n, b) ==
    /\ b.index = Len(chain[n])
    /\ b.previous_hash = chain[n][Len(chain[n])].hash

\* every native debit of txs is covered by the balances bal as they run
RunningDebitsCovered(bal, txs) ==
    \A j \in 1..Len(txs) :
        txs[j].asset_id = NATIVE_CURRENCY_SYMBOL
            => ReplayNative(bal, SubSeq(txs, 1, j - 1))[txs[j].sender_address] >= txs[j].amount

\* C27: a transaction of an asset other than the native currency is admitted
\* whatever the balance of its sender and leaves the balances as they are
\* when it is admitted, applied, mined, received in a block or replayed; a
\* successful mining takes every pending transaction of another asset, and
\* the balances of every node are the replay of the native transfers of its
\* chain alone.
C27_OtherAssetsLeaveBalances ==
    \A n \in Nodes :
        /\ \A tx \in OtherAssetTransactions :
               LET r == add_transaction(World, n, tx, get_public_key_hex(tx.sender_address),
                                        FALSE, {})
               IN  /\ r.ret = "True"
                   /\ tx.transaction_id \in TransactionIds(r.w.pending_transactions[n])
                   /\ r.w.balances = balances
                   /\ process_transaction_for_state_changes(balances[n], tx)
                          = [ok |-> TRUE, balances |-> balances[n]]
                   /\ USER_PUBLIC_KEYS[tx.sender_address] = get_public_key_hex(tx.sender_address)
                          => ReplayProspective(USER_PUBLIC_KEYS, balances[n], <<tx>>)
                                 = [valid_so_far |-> TRUE, balances |-> balances[n]]
        /\ LET r == mine_pending_transactions(World, n, {})
               c == r.w.chain[n]
           IN  r.ret = "Block"
                   => /\ \A i \in 1..Len(pending_transactions[n]) :
                             pending_transactions[n][i].asset_id # NATIVE_CURRENCY_SYMBOL
                                 => \E j \in 1..Len(c[Len(c)].transactions) :
                                        c[Len(c)].transactions[j] = pending_transactions[n][i]
                      /\ r.w.balances[n] = ReplayNative(balances[n], c[Len(c)].transactions)
        /\ \A block_data \in InboundBlocks(get_chain_endpoint(World, "A")) :
               LET r == handle_received_block(World, n, block_data, {})
                   b == block_from_dict(block_data)
               IN  r.w.chain[n] # chain[n]
                       => r.w.balances[n] = ReplayNative(balances[n], b.transactions)
        /\ balances[n] = ReplayedBalances(n)

\* node B has just appended and relayed a block of node A that holds a
\* transfer of 5 of another asset by a sender whose balance is below 5
C27_Witness ==
    /\ last.op = "handle_received_block"
    /\ last.ret = "True"
    /\ Len(sent["B"]) > 0
    /\ LET b == chain["B"][Len(chain["B"])]
       IN  /\ LastSent("B").kind = "NEW_BLOCK"
           /\ LastSent("B").item = b.hash
           /\ \E j \in 1..Len(b.transactions) :
                  /\ b.transactions[j].asset_id = OTHER_COIN
                  /\ balances["B"][b.transactions[j].sender_address] < b.transactions[j].amount

\* C28: a received block that passes the checks and extends the tip of
\* node B is rejected, with nothing changed, when a native debit of it is
\* not covered by the running balances; otherwise it is appended, its
\* transactions are applied to the balances and removed from the mempool,
\* and it is posted once to every peer unless its hash is in the seen set.
C28_InboundBlockAllOrNothing ==
    \A block_data \in InboundBlocks(get_chain_endpoint(World, "A")), up \in {{}, Links} :
        LET b == block_from_dict(block_data)
            r == handle_received_block(World, "B", block_data, up)
            ids == TransactionIds(b.transactions)
        IN  (InboundVerified("B", b) /\ ExtendsTip("B", b))
                => IF ~RunningDebitsCovered(balances["B"], b.transactions)
                   THEN /\ r.ret = "False"
                        /\ r.w = World
                   ELSE /\ r.ret = "True"
                        /\ r.w.chain["B"] = Append(chain["B"], b)
                        /\ r.w.balances["B"] = ReplayNative(balances["B"], b.transactions)
                        /\ r.w.pending_transactions["B"]
                               = SelectSeq(pending_transactions["B"],
                                           LAMBDA tx : tx.transaction_id \notin ids)
                        /\ b.hash \in r.w.seen_block_hashes_broadcast["B"]
                        /\ IF b.hash \in seen_block_hashes_broadcast["B"]
                           THEN NewlySent(r.w, "B") = <<>>
                           ELSE /\ Len(NewlySent(r.w, "B")) = Cardinality(peers["B"])
                                /\ \A i \in 1..Len(NewlySent(r.w, "B")) :
                                       /\ NewlySent(r.w, "B")[i].kind = "NEW_BLOCK"
                                       /\ NewlySent(r.w, "B")[i].item = b.hash
                                       /\ NewlySent(r.w, "B")[i].to \in peers["B"]

\* node B has just appended and relayed a block whose transaction it had
\* relayed and held in its mempool before, and its mempool is empty now
C28_Witness ==
    /\ last.op = "handle_received_block"
    /\ last.ret = "True"
    /\ pending_transactions["B"] = <<>>
    /\ Len(sent["B"]) > 1
    /\ LET b == chain["B"][Len(chain["B"])]
       IN  /\ LastSent("B").kind = "NEW_BLOCK"
           /\ LastSent("B").item = b.hash
           /\ Len(b.transactions) > 0
           /\ \E i \in 1..Len(sent["B"]) :
                  /\ sent["B"][i].kind = "NEW_TRANSACTION"
                  /\ sent["B"][i].item = b.transactions[1].transaction_id

C30_InboundTransactionGuard ==
    \A tx_data \in InboundTransactionDicts, up \in {{}, Links} :
        LET r == handle_received_transaction(World, "B", tx_data, up)
            tx == [TransactionWith(tx_data.sender_address, tx_data.receiver_address,
                                   tx_data.amount, tx_data.asset_id, tx_data.timestamp,
                                   tx_data.fee, tx_data.metadata)
                      EXCEPT !.signature = tx_data.signature]
            key == USER_PUBLIC_KEYS[tx_data.sender_address]
            known == \/ tx_data.transaction_id \in TransactionIds(pending_transactions["B"])
                     \/ \E i \in 1..Len(chain["B"]) :
                            tx_data.transaction_id \in TransactionIds(chain["B"][i].transactions)
            accepted == r.w.pending_transactions["B"] # pending_transactions["B"]
        IN  /\ r.w.chain["B"] = chain["B"]
            /\ r.w.balances["B"] = balances["B"]
            /\ r.w.network_interface = network_interface
            /\ r.w.validator_manager = validator_manager
            /\ accepted => /\ r.w.pending_transactions["B"] = Append(pending_transactions["B"], tx)
                           /\ r.ret = "True"
                           /\ ~known
                           /\ tx.transaction_id = tx_data.transaction_id
                           /\ key # NoKey
                           /\ tx.signature.intact
                           /\ key = get_public_key_hex(tx.signature.signer)
                           /\ tx.signature.digest = sha256(get_data_for_signing(tx))
            /\ known => (r.ret = "True" /\ r.w = World)
            /\ ~accepted => NewlySent(r.w, "B") = <<>>
            /\ accepted
                   => IF tx.transaction_id \in seen_tx_ids_broadcast["B"]
                      THEN NewlySent(r.w, "B") = <<>>
                      ELSE /\ Len(NewlySent(r.w, "B")) = Cardinality(peers["B"])
                           /\ \A i \in 1..Len(NewlySent(r.w, "B")) :
                                  /\ NewlySent(r.w, "B")[i].kind = "NEW_TRANSACTION"
                                  /\ NewlySent(r.w, "B")[i].item = tx.transaction_id

\* node B has just accepted a transaction of a sender whose key was
\* published, holds it in its mempool and has posted it to its peer
C30_Witness ==
    /\ last.op = "handle_received_transaction"
    /\ last.ret = "True"
    /\ Len(sent["B"]) > 0
    /\ pending_transactions["B"] # <<>>
    /\ LET tx == pending_transactions["B"][Len(pending_transactions["B"])]
       IN  /\ tx.sender_address = "al"
           /\ LastSent("B").kind = "NEW_TRANSACTION"
           /\ LastSent("B").item = tx.transaction_id

-----------------------------------------------------------------------------
(* Claims on one node's own operations, checked under SpecLedger *)

\* C36: in every reachable state of node A every balance is at least zero,
\* whatever amounts admission lets through.
C36_NoNegativeBalance == \A a \in Wallets : balances["A"][a] >= 0

\* C37: after any sequence of register_validator_wallet, add_transaction
\* (with a supplied key under which the signature verifies) and
\* mine_pending_transactions on node A, is_chain_valid returns true.
C37_OwnOperationsKeepChainValid == is_chain_valid(World, "A")

\* C39: add_transaction admits a transaction to the mempool of node A only
\* if its signature verifies under the key registered for the address it
\* debits; a transaction signed by another wallet than its sender's and
\* submitted with that wallet's key is not admitted.
C39_DebitsAuthorizedBySender ==
    \A tx \in LedgerTransactions : \A pk \in SuppliedKeys(tx) :
        LET r == add_transaction(World, "A", tx, pk, FALSE, {})
        IN  r.w.pending_transactions["A"] # pending_transactions["A"]
                => /\ USER_PUBLIC_KEYS[tx.sender_address] # NoKey
                   /\ tx_verify_signature(tx, USER_PUBLIC_KEYS[tx.sender_address])
                   /\ tx.signature.signer = tx.sender_address

-----------------------------------------------------------------------------
(* SpecPeers: peer discovery of node A, one statement group at a time.    *)
(* connect_to_peer, add_peer and request_peers_from call each other; the  *)
(* call stack is explicit, a step runs the frame on top up to its next    *)
(* call or return.  The network answers every request as it likes.  One   *)
(* top-level call runs at a time.                                         *)

\* address strings that reach the node: its own, another spelling of its
\* own ("A0": the port written with a leading zero), two peers, another
\* spelling of peer B, an http address without a port and one that does not
\* begin with "http://"
SelfAddress == "A"
AddressStrings == {"A", "A0", "B", "B0", "C", "noport", "noscheme"}

\* Node.from_address_string(...).address: the port goes through int() and
\* is formatted again
from_address_string(address_string) ==
    CASE address_string = "A0" -> "A"
      [] address_string = "B0" -> "B"
      [] address_string \in {"noport", "noscheme"} -> "ValueError"
      [] OTHER -> address_string

MaxDepth == 9

\* what _send_http_request returns for GET /ping: None or the "address" of
\* the answer
PingAnswers == {"None"} \cup AddressStrings

\* what it returns for GET /get_peers: None or the "peers" of the answer
NoPeerList == <<"None">>
PeerListAnswers ==
    {NoPeerList, <<>>} \cup {<<a>> : a \in AddressStrings}
        \cup {<<a, b>> : a, b \in AddressStrings}

Frame(fn, pc, peer_address, peer_node, rest) ==
    [fn |-> fn, pc |-> pc, peer_address |-> peer_address, peer_node |-> peer_node,
     rest |-> rest]

\* the call in progress: its stack (top first), the value the last return
\* left, the last ping answer, the peers added since the node started
\* (log), how many of them before this call (base), and the GET /get_peers
\* requests of this call
NoDiscovery ==
    [pc |-> "peers", op |-> "none", stack |-> <<>>, ret |-> "None", response |-> "None",
     log |-> <<>>, base |-> 0, requests |-> 0]

Discovery == IF running["fg"].pc = "peers" THEN running["fg"] ELSE NoDiscovery

\* the call moves to d; a top-level call that returned is recorded
Discovers(d) ==
    /\ Len(d.stack) <= MaxDepth
    /\ running' = [running EXCEPT !["fg"] = d]
    /\ last' = IF d.stack = <<>>
               THEN [op |-> d.op, node |-> "A", ret |-> d.ret, run |-> <<>>,
                     previous |-> last.previous]
               ELSE last
    /\ UNCHANGED <<sent, in_flight, draft>>

\* add_peer line 1: if peer_node.address == self.self_node.address or
\* peer_node in self.peers: return False
add_peer_refuses_known_only(w, n, peer_node) == peer_node \in w.peers[n]
add_peer_refuses(w, n, peer_node) == peer_node = n \/ peer_node \in w.peers[n]

\* self.peers.add(peer_node)
peers_add_forgetting(w, n, peer_node) == w
peers_add(w, n, peer_node) == [w EXCEPT !.peers[n] = @ \cup {peer_node}]

\* a top-level connect_to_peer(peer_address) is called
CallConnectToPeer(peer_address) ==
    /\ Discovery.stack = <<>>
    /\ Do([w |-> World])
    /\ Discovers([Discovery EXCEPT
                     !.op = "connect_to_peer", !.base = Len(Discovery.log), !.requests = 0,
                     !.stack = <<Frame("connect_to_peer", "ping", peer_address, "-", <<>>)>>])

\* new_peer_announce_api with {"address": peer_address} up to its call of
\* add_peer, or to its 400 answer
NewPeerAnnounce(peer_address) ==
    LET d == [Discovery EXCEPT !.op = "new_peer_announce", !.base = Len(Discovery.log),
                               !.requests = 0]
    IN  /\ Discovery.stack = <<>>
        /\ Do([w |-> World])
        /\ Discovers(
               IF peer_address = "noscheme" \/ peer_address = SelfAddress
                  \/ from_address_string(peer_address) = "ValueError"
               THEN [d EXCEPT !.ret = "400"]
               ELSE [d EXCEPT !.stack =
                       <<Frame("add_peer", "guard", peer_address,
                               from_address_string(peer_address), <<>>),
                         Frame("new_peer_announce", "added", peer_address, "-", <<>>)>>])

\* new_peer_announce_api after add_peer returned
AnnounceAnswer ==
    LET d == Discovery
    IN  /\ d.stack # <<>> /\ Head(d.stack).fn = "new_peer_announce"
        /\ Do([w |-> World])
        /\ Discovers([d EXCEPT !.stack = Tail(@),
                               !.ret = IF d.ret = "True" THEN "201" ELSE "200"])

\* connect_to_peer from its first line to its call of add_peer or to its
\* return False
ConnectPing ==
    LET d == Discovery
        f == Head(d.stack)
    IN  /\ d.stack # <<>> /\ f.fn = "connect_to_peer" /\ f.pc = "ping"
        /\ Do([w |-> World])
        /\ IF f.peer_address = SelfAddress
           THEN Discovers([d EXCEPT !.stack = Tail(@), !.ret = "False"])
           ELSE \E ping_response \in PingAnswers :
                  Discovers(
                     IF ping_response = f.peer_address
                        /\ from_address_string(f.peer_address) # "ValueError"
                     THEN [d EXCEPT !.response = ping_response,
                                    !.stack = <<Frame("add_peer", "guard", f.peer_address,
                                                      from_address_string(f.peer_address),
                                                      <<>>),
                                                [f EXCEPT !.pc = "added",
                                                          !.peer_node =
                                                              from_address_string(f.peer_address)]>>
                                              \o Tail(d.stack)]
                     ELSE [d EXCEPT !.response = ping_response, !.stack = Tail(@),
                                    !.ret = "False"])

\* add_peer up to the loop of request_peers_from, or to its return False
AddPeer ==
    LET d == Discovery
        f == Head(d.stack)
    IN  /\ d.stack # <<>> /\ f.fn = "add_peer" /\ f.pc = "guard"
        /\ IF add_peer_refuses(World, "A", f.peer_node)
           THEN /\ Do([w |-> World])
                /\ Discovers([d EXCEPT !.stack = Tail(@), !.ret = "False"])
           ELSE \E response_data \in PeerListAnswers :
                  /\ Do([w |-> peers_add(World, "A", f.peer_node)])
                  /\ Discovers(
                        [d EXCEPT !.log = Append(@, f.peer_node),
                                  !.requests = @ + 1,
                                  !.stack = <<Frame("request_peers_from", "loop", "-",
                                                    f.peer_node,
                                                    IF response_data = NoPeerList THEN <<>>
                                                    ELSE response_data),
                                              [f EXCEPT !.pc = "return"]>>
                                            \o Tail(d.stack)])

\* one round of the loop of request_peers_from, up to its call of
\* connect_to_peer, or its return
RequestPeersFrom ==
    LET d == Discovery
        f == Head(d.stack)
    IN  /\ d.stack # <<>> /\ f.fn = "request_peers_from"
        /\ Do([w |-> World])
        /\ Discovers(
              IF f.rest = <<>> THEN [d EXCEPT !.stack = Tail(@), !.ret = "None"]
              ELSE IF Head(f.rest) # SelfAddress /\ Head(f.rest) \notin peers["A"]
              THEN [d EXCEPT !.stack = <<Frame("connect_to_peer", "ping", Head(f.rest),
                                               "-", <<>>),
                                         [f EXCEPT !.rest = Tail(@)]>> \o Tail(d.stack)]
              ELSE [d EXCEPT !.stack = <<[f EXCEPT !.rest = Tail(@)]>> \o Tail(d.stack)])

\* add_peer after request_peers_from returned: return True
AddPeerReturn ==
    LET d == Discovery
        f == Head(d.stack)
    IN  /\ d.stack # <<>> /\ f.fn = "add_peer" /\ f.pc = "return"
        /\ Do([w |-> World])
        /\ Discovers([d EXCEPT !.stack = Tail(@), !.ret = "True"])

\* connect_to_peer after add_peer returned: the chain request of a node
\* that holds its genesis block only, and return added.  Peer B serves its
\* chain when the request gets through; no other address serves one.
ConnectAdded ==
    LET d == Discovery
        f == Head(d.stack)
    IN  /\ d.stack # <<>> /\ f.fn = "connect_to_peer" /\ f.pc = "added"
        /\ \E up \in SUBSET {<<"A", "B">>} :
              Do([w |-> IF (d.ret = "True" \/ f.peer_node \in peers["A"])
                           /\ Len(chain["A"]) = 1 /\ ~syncing_in_progress["A"]
                        THEN request_chain_from_peer(World, "A", f.peer_node,
                                                     IF f.peer_node = "B" THEN up ELSE {})
                        ELSE World])
        /\ Discovers([d EXCEPT !.stack = Tail(@)])

\* the steps of the call in progress
DiscoveryStep ==
    \/ ConnectPing
    \/ AddPeer
    \/ RequestPeersFrom
    \/ AddPeerReturn
    \/ ConnectAdded
    \/ AnnounceAnswer

NextPeers ==
    \/ \E peer_address \in AddressStrings : CallConnectToPeer(peer_address)
    \/ \E peer_address \in AddressStrings : NewPeerAnnounce(peer_address)
    \/ ConnectPing
    \/ AddPeer
    \/ RequestPeersFrom
    \/ AddPeerReturn
    \/ ConnectAdded
    \/ AnnounceAnswer

SpecPeers == Init /\ [][NextPeers]_vars

\* the thread that runs the call is scheduled until the call returns
SpecPeersFair == SpecPeers /\ WF_vars(DiscoveryStep)

NoDuplicates(q) == \A i, j \in 1..Len(q) : q[i] = q[j] => i = j

AddedDuringCall == SubSeq(Discovery.log, Discovery.base + 1, Len(Discovery.log))

\* C31: the peer set of node A never holds the node's own address and holds
\* each address once (every address was added once and is still there);
\* add_peer of a peer already known returns False, leaves the set as it is
\* and sends no peer-list request; connect_to_peer of an address whose ping
\* fails or answers another address adds nothing and returns False.
C31_PeerSetWellFormed ==
    /\ [](/\ SelfAddress \notin peers["A"]
          /\ NoDuplicates(Discovery.log)
          /\ peers["A"] = {Discovery.log[i] : i \in 1..Len(Discovery.log)})
    /\ [][LET d == Discovery
              f == Head(d.stack)
          IN  d.stack # <<>> =>
                /\ f.fn = "add_peer" /\ f.pc = "guard" /\ f.peer_node \in peers["A"]
                      => /\ peers' = peers
                         /\ Discovery'.ret = "False"
                         /\ Discovery'.requests = d.requests
                         /\ Discovery'.stack = Tail(d.stack)
                /\ f.fn = "connect_to_peer" /\ f.pc = "ping"
                   /\ f.peer_address # SelfAddress
                   /\ Discovery'.response # f.peer_address
                      => /\ peers' = peers
                         /\ Discovery'.ret = "False"
                         /\ Discovery'.stack = Tail(d.stack)]_vars

\* both peers are known, and an announcement of an address was answered
\* "already known or is self" after ping answers that did and did not match
C31_Witness ==
    /\ peers["A"] = {"B", "C"}
    /\ Discovery.stack = <<>>
    /\ last.op = "new_peer_announce" /\ last.ret = "200"
    /\ Discovery.response \notin {"None", "B", "C"}

\* C32: a call of connect_to_peer returns, whatever lists of peers the
\* network answers; while it runs the stack of connect_to_peer, add_peer
\* and request_peers_from calls stays below MaxDepth and no address is
\* added twice.
C32_DiscoveryTerminates ==
    /\ [](NoDuplicates(AddedDuringCall) /\ Len(Discovery.stack) < MaxDepth)
    /\ (Discovery.stack # <<>>) ~> (Discovery.stack = <<>>)

\* a connect_to_peer call returned after it added both peers, each from
\* the peer list of an answer
C32_Witness ==
    /\ Discovery.stack = <<>>
    /\ last.op = "connect_to_peer" /\ last.ret = "True"
    /\ Len(AddedDuringCall) = 2
    /\ Discovery.requests = 2

-----------------------------------------------------------------------------
(* A transaction of a signed block is changed in place *)

\* block.transactions[k].amount = v, as the demonstration of block.py does
\* to a signed block: the attribute is assigned, nothing is recomputed
TamperAmount(b, k, v) == [b EXCEPT !.transactions[k].amount = v]

TamperedAmounts == {0, 999}

\* C33: after the amount of a transaction in a signed block on the chain of
\* node A is changed, verify_block_signature under the validator's key
\* still returns true, the hash recomputed from the block differs from the
\* stored one, and is_chain_valid rejects the chain on the hash comparison.
C33_TamperChangesHash ==
    \A i \in 1..Len(chain["A"]) : \A k \in 1..Len(chain["A"][i].transactions) :
        \A v \in TamperedAmounts \ {chain["A"][i].transactions[k].amount} :
            LET b == TamperAmount(chain["A"][i], k, v)
            IN  /\ verify_block_signature(b, get_public_key_hex(b.validator_address))
                /\ calculate_block_hash(b) # b.hash
                /\ ChainValidationKind([World EXCEPT !.chain["A"][i] = b], "A") = "InvalidHash"

-----------------------------------------------------------------------------
(* Linkage of the stored chain *)

\* chain c is linked: the positions, previous hashes and stored hashes agree
Linked(c) ==
    /\ c[1].index = 0 /\ c[1].previous_hash = GenesisPreviousHash
    /\ \A i \in 2..Len(c) :
          /\ c[i].index = i - 1
          /\ c[i].previous_hash = c[i - 1].hash
          /\ c[i].hash = calculate_block_hash(c[i])

\* node A's chain c as a peer serves it after it changed the index or the
\* previous hash of block 0 and left the stored hash and signature alone
ForgedGenesis(c) ==
    {[c EXCEPT ![1].index = 1], [c EXCEPT ![1].previous_hash = <<"elsewhere">>]}

\* C34: the chain of every node is linked (block 0 has index 0 and previous
\* hash "0"; block i > 0 has index i, the stored hash of block i - 1 as its
\* previous hash and a stored hash equal to the recomputed one), and it is
\* still linked after handle_chain_response has handled any chain response.
C34_ChainLinkage ==
    /\ \A n \in Nodes : Linked(chain[n])
    /\ \A received_chain_dicts \in
              Responses(get_chain_endpoint(World, "A"))
                  \cup ForgedGenesis(get_chain_endpoint(World, "A")) :
          Linked(handle_chain_response(World, "B", received_chain_dicts).chain["B"])

\* C35: under every interleaving of mining, inbound block handling and chain
\* synchronization a step that changes the chain of a node appends one
\* block to it or replaces it by a strictly longer chain, and it leaves
\* block 0 alone once the chain has more than one block; so the length
\* never decreases.
C35_ChainsOnlyGrow ==
    [][\A n \in Nodes :
          chain'[n] # chain[n]
              => /\ Len(chain'[n]) > Len(chain[n])
                 /\ Len(chain[n]) > 1 => chain'[n][1] = chain[n][1]]_vars

-----------------------------------------------------------------------------
(* Validity of the chain after network data was accepted, under Spec *)

\* C38: when handle_received_block on node n appends a block of the other
\* node's chain, or handle_chain_response on n adopts the other node's
\* chain, is_chain_valid of n returns true on the state the handler leaves,
\* whether the validators of the blocks are registered on n or not.
C38_AcceptedDataKeepsChainValid ==
    \A n \in Nodes : \A m \in Nodes \ {n} :
        /\ \A i \in 1..Len(chain[m]) :
              LET r == handle_received_block(World, n, block_to_dict(chain[m][i]), {})
              IN  r.w.chain[n] # chain[n] => is_chain_valid(r.w, n)
        /\ LET w2 == handle_chain_response(World, n, get_chain_endpoint(World, m))
           IN  w2.chain[n] # chain[n] => is_chain_valid(w2, n)

-----------------------------------------------------------------------------
(* SpecHandlers: two request threads of node A inside                      *)
(* handle_received_transaction and handle_received_block, one statement    *)
(* group at a time from the line that saves the ledger's network_interface *)
(* on; the commands of the foreground loop run in one step each.           *)

HandlerThreads == Threads \ {"fg"}

\* the block a peer that holds the chain of node A and the wallet of "v1"
\* makes on top of it around one transfer
PeerBlock(w) ==
    block_to_dict(sign_block(Block(Len(w.chain["A"]), <<ForegroundTransaction>>, w.clock,
                                   last_block(w, "A").hash, "v1"), "v1"))

\* handle_received_transaction(tx_data) in thread t up to line 158: the
\* transaction is new, its id is the one claimed and the key of its sender
\* is registered
BeginHandleReceivedTransaction(t, tx_data) ==
    LET transaction == tx_from_dict(tx_data)
    IN  /\ running[t] = Idle
        /\ ~InMempool(World, "A", tx_data.transaction_id)
        /\ ~OnChain(World, "A", tx_data.transaction_id)
        /\ transaction.transaction_id = tx_data.transaction_id
        /\ USER_PUBLIC_KEYS[transaction.sender_address] # NoKey
        /\ Do([w |-> World])
        /\ Runs(t, [pc |-> "save", kind |-> "transaction", item |-> transaction,
                    original |-> FALSE, success |-> "None"])

\* handle_received_block(block_data) in thread t up to line 216: the block
\* passed the checks and extends the chain
BeginHandleReceivedBlock(t, block_data) ==
    /\ running[t] = Idle
    /\ received_block_branch(World, "A", block_data) = "extends"
    /\ Do([w |-> World])
    /\ Runs(t, [pc |-> "save", kind |-> "block", item |-> block_from_dict(block_data),
                original |-> FALSE, success |-> "None"])

\* original_bc_net_interface = self.blockchain.network_interface
SaveInterface(t) ==
    /\ running[t].pc = "save"
    /\ Do([w |-> World])
    /\ Runs(t, [running[t] EXCEPT !.pc = "clear", !.original = network_interface["A"]])

\* self.blockchain.network_interface = None
ClearInterface(t) ==
    /\ running[t].pc = "clear"
    /\ Do([w |-> [World EXCEPT !.network_interface["A"] = FALSE]])
    /\ Runs(t, [running[t] EXCEPT !.pc = "apply"])

\* the add_transaction call of handle_received_transaction, or the loop
\* and the append of handle_received_block
ApplyReceivedItem(t) ==
    LET item == running[t].item
        added == add_transaction(World, "A", item, USER_PUBLIC_KEYS[item.sender_address],
                                 TRUE, {})
    IN  /\ running[t].pc = "apply"
        /\ IF running[t].kind = "transaction"
           THEN /\ Do(added)
                /\ Runs(t, [running[t] EXCEPT !.pc = "restore", !.success = added.ret])
           ELSE /\ Do([w |-> [World EXCEPT
                                 !.balances["A"] = ApplyReceived(@, item.transactions),
                                 !.chain["A"] = Append(@, item)]])
                /\ Runs(t, [running[t] EXCEPT !.pc = "restore", !.success = "True"])

\* self.blockchain.network_interface = original_bc_net_interface
RestoreInterface(t) ==
    /\ running[t].pc = "restore"
    /\ Do([w |-> [World EXCEPT !.network_interface["A"] = running[t].original]])
    /\ Runs(t, [running[t] EXCEPT !.pc = "finish"])

\* the rest of the handler: the mempool is cleaned of the block's
\* transactions, and what was accepted is broadcast
FinishHandler(t) ==
    LET item == running[t].item
    IN  /\ running[t].pc = "finish"
        /\ Do([w |->
                 IF running[t].kind = "transaction"
                 THEN IF running[t].success = "True"
                      THEN broadcast_transaction(World, "A", item, {})
                      ELSE World
                 ELSE broadcast_block(
                          [World EXCEPT !.pending_transactions["A"] =
                                            KeepNotIn(@, TransactionIds(item.transactions))],
                          "A", item, {})])
        /\ Runs(t, Idle)

NextHandlers ==
    \/ AddTransaction("A", ForegroundTransaction, get_public_key_hex("gA"), {}) /\ Unobserved
    \/ MinePendingTransactions("A", {}) /\ Unobserved
    \/ RegisterValidatorWallet("A", "v1", 100) /\ Unobserved
    \/ \E t \in HandlerThreads, tx \in {ForegroundTransaction, PeerTransaction} :
           BeginHandleReceivedTransaction(t, tx_to_dict(tx))
    \/ \E t \in HandlerThreads : BeginHandleReceivedBlock(t, PeerBlock(World))
    \/ \E t \in HandlerThreads : SaveInterface(t)
    \/ \E t \in HandlerThreads : ClearInterface(t)
    \/ \E t \in HandlerThreads : ApplyReceivedItem(t)
    \/ \E t \in HandlerThreads : RestoreInterface(t)
    \/ \E t \in HandlerThreads : FinishHandler(t)

SpecHandlers == Init /\ [][NextHandlers]_vars

\* C40: whenever no request thread of node A is inside an inbound handler,
\* the ledger's network_interface refers to the node's transport, whatever
\* the interleaving of the handlers with each other and with the commands
\* of the foreground loop.
C40_SuppressionUndone ==
    (\A t \in HandlerThreads : running[t] = Idle) => network_interface["A"]

====
